---------------------------- MODULE Spec2Model ----------------------------
(***************************************************************************)
(* Model of the spreadsheet-to-database ETL pipeline: etl/etl.js           *)
(* (ETLPipeline.run, main), etl/extract.js (Extractor), etl/transform.js   *)
(* (Transformer), etl/load.js (Loader) and etl/logger.js (Logger.stats).   *)
(*                                                                         *)
(* A JavaScript string is a sequence of one-character strings, so that the *)
(* normalizers are computed character by character as the code does.  The  *)
(* values undefined and null are the two one-element sequences below; no   *)
(* cell text can equal them, because a cell is made of single characters.  *)
(***************************************************************************)
EXTENDS Integers, Sequences, FiniteSets, TLC

Undefined == <<"undefined">>
Null == <<"null">>

\* An optional value: None before a stage has returned, Some(x) after.
None == <<>>
Some(x) == <<x>>

(***************************************************************************)
(* Strings                                                                 *)
(***************************************************************************)
LowerLetters == <<"a","b","c","d","e","f","g","h","i","j","k","l","m",
                  "n","o","p","q","r","s","t","u","v","w","x","y","z">>
UpperLetters == <<"A","B","C","D","E","F","G","H","I","J","K","L","M",
                  "N","O","P","Q","R","S","T","U","V","W","X","Y","Z">>
DigitChars == <<"0","1","2","3","4","5","6","7","8","9">>

Range(s) == {s[i] : i \in 1..Len(s)}

IsLower(c) == c \in Range(LowerLetters)
IsUpper(c) == c \in Range(UpperLetters)
IsLetter(c) == IsLower(c) \/ IsUpper(c)
IsDigit(c) == c \in Range(DigitChars)
IsAlnum(c) == IsLetter(c) \/ IsDigit(c)
IsSpace(c) == c \in {" ", "\t", "\n", "\r"}

IndexIn(c, s) == CHOOSE i \in 1..Len(s) : s[i] = c

toUpperChar(c) == IF IsLower(c) THEN UpperLetters[IndexIn(c, LowerLetters)] ELSE c
toLowerChar(c) == IF IsUpper(c) THEN LowerLetters[IndexIn(c, UpperLetters)] ELSE c

toUpperCase(s) == [i \in 1..Len(s) |-> toUpperChar(s[i])]
toLowerCase(s) == [i \in 1..Len(s) |-> toLowerChar(s[i])]

MinOf(S) == CHOOSE x \in S : \A y \in S : x <= y
MaxOf(S) == CHOOSE x \in S : \A y \in S : x >= y

\* String.prototype.trim
trim(s) ==
  LET keep == {i \in 1..Len(s) : ~IsSpace(s[i])}
  IN  IF keep = {} THEN <<>> ELSE SubSeq(s, MinOf(keep), MaxOf(keep))

\* s.replace(/\s+/g, ' ') : every maximal run of whitespace becomes one space
collapseSpaces(s) ==
  LET first == {i \in 1..Len(s) : ~IsSpace(s[i]) \/ i = 1 \/ ~IsSpace(s[i-1])}
      pick[i \in 0..Len(s)] ==
        IF i = 0 THEN <<>>
        ELSE IF i \in first
             THEN Append(pick[i-1], IF IsSpace(s[i]) THEN " " ELSE s[i])
             ELSE pick[i-1]
  IN  pick[Len(s)]

AllDigits(s) == \A i \in 1..Len(s) : IsDigit(s[i])

\* JavaScript truthiness test `!value || value.trim() === ''` of the normalizers
isBlank(value) ==
  \/ value = Undefined
  \/ value = Null
  \/ value = <<>>
  \/ trim(value) = <<>>

(***************************************************************************)
(* Field normalizers of Transformer.  Each returns the normalized value,   *)
(* the entries it pushes on this.validationErrors and the number of        *)
(* logger.warn calls it makes.                                             *)
(***************************************************************************)
Outcome(v, errs, w) == [value |-> v, errors |-> errs, warnings |-> w]

ValidationError(rowIndex, fieldName, value, msg) ==
  [row |-> rowIndex, field |-> fieldName, value |-> value, error |-> msg]

\* /^C\d+$/
matchesCustomerId(s) == Len(s) >= 2 /\ s[1] = "C" /\ AllDigits(SubSeq(s, 2, Len(s)))

transformCustomerId(value, rowIndex) ==
  IF isBlank(value) THEN Outcome(Null, <<>>, 1)
  ELSE
    LET stripped == toUpperCase(SelectSeq(value, IsAlnum))
        cleaned == IF Len(stripped) >= 1 /\ stripped[1] = "C"
                   THEN stripped ELSE <<"C">> \o stripped
    IN  IF ~matchesCustomerId(cleaned)
        THEN Outcome(Null,
                     <<ValidationError(rowIndex, "customer_id", value,
                         "Invalid format, must be C followed by numbers")>>, 0)
        ELSE Outcome(cleaned, <<>>, 0)

transformFullName(value, rowIndex) ==
  IF isBlank(value)
  THEN Outcome(Null,
               <<ValidationError(rowIndex, "full_name", value, "Name is required")>>, 0)
  ELSE
    LET cleaned == collapseSpaces(trim(value))
    IN  Outcome(cleaned, <<>>, IF AllDigits(cleaned) THEN 1 ELSE 0)

\* /^[A-Za-z0-9._%+-]+@[A-Za-z0-9.-]+\.[A-Za-z]{2,}$/
IsEmailLocalChar(c) == IsAlnum(c) \/ c \in {".", "_", "%", "+", "-"}
IsEmailDomainChar(c) == IsAlnum(c) \/ c \in {".", "-"}

emailRegex(s) ==
  \E at \in 2..Len(s) : \E dot \in (at + 2)..(Len(s) - 2) :
    /\ s[at] = "@"
    /\ \A i \in 1..(at - 1) : IsEmailLocalChar(s[i])
    /\ \A i \in (at + 1)..(dot - 1) : IsEmailDomainChar(s[i])
    /\ s[dot] = "."
    /\ \A i \in (dot + 1)..Len(s) : IsLetter(s[i])

transformEmail(value, rowIndex) ==
  IF isBlank(value)
  THEN Outcome(Null,
               <<ValidationError(rowIndex, "email", value, "Email is required")>>, 0)
  ELSE
    LET cleaned == toLowerCase(trim(value))
    IN  IF ~emailRegex(cleaned)
        THEN Outcome(Null,
                     <<ValidationError(rowIndex, "email", value, "Invalid email format")>>, 0)
        ELSE Outcome(cleaned, <<>>, 0)

transformPhone(value, rowIndex) ==
  IF isBlank(value) THEN Outcome(Null, <<>>, 0)
  ELSE
    LET digits == SelectSeq(value, IsDigit)
    IN  IF Len(digits) = 7
        THEN Outcome(SubSeq(digits, 1, 3) \o <<"-">> \o SubSeq(digits, 4, 7), <<>>, 0)
        ELSE IF Len(digits) = 10
             THEN Outcome(digits, <<>>, 0)
             ELSE Outcome(Null, <<>>, 1)

transformCity(value, rowIndex) ==
  IF isBlank(value) THEN Outcome(Null, <<>>, 0)
  ELSE Outcome(trim(value), <<>>, 0)

\* this.stateMapping: pairs <<full state name, code>>
stateMapping ==
  <<
    <<<<"N","e","w"," ","Y","o","r","k">>, <<"N","Y">>>>,
    <<<<"C","a","l","i","f","o","r","n","i","a">>, <<"C","A">>>>,
    <<<<"T","e","x","a","s">>, <<"T","X">>>>,
    <<<<"F","l","o","r","i","d","a">>, <<"F","L">>>>,
    <<<<"I","l","l","i","n","o","i","s">>, <<"I","L">>>>,
    <<<<"P","e","n","n","s","y","l","v","a","n","i","a">>, <<"P","A">>>>,
    <<<<"O","h","i","o">>, <<"O","H">>>>,
    <<<<"G","e","o","r","g","i","a">>, <<"G","A">>>>,
    <<<<"N","o","r","t","h"," ","C","a","r","o","l","i","n","a">>, <<"N","C">>>>,
    <<<<"M","i","c","h","i","g","a","n">>, <<"M","I">>>>,
    <<<<"N","e","w"," ","J","e","r","s","e","y">>, <<"N","J">>>>,
    <<<<"V","i","r","g","i","n","i","a">>, <<"V","A">>>>,
    <<<<"W","a","s","h","i","n","g","t","o","n">>, <<"W","A">>>>,
    <<<<"A","r","i","z","o","n","a">>, <<"A","Z">>>>,
    <<<<"M","a","s","s","a","c","h","u","s","e","t","t","s">>, <<"M","A">>>>,
    <<<<"T","e","n","n","e","s","s","e","e">>, <<"T","N">>>>,
    <<<<"I","n","d","i","a","n","a">>, <<"I","N">>>>,
    <<<<"M","i","s","s","o","u","r","i">>, <<"M","O">>>>,
    <<<<"M","a","r","y","l","a","n","d">>, <<"M","D">>>>,
    <<<<"W","i","s","c","o","n","s","i","n">>, <<"W","I">>>>
  >>

\* obj[key] for a table of <<key, value>> pairs: the value, or Undefined
lookup(table, key) ==
  IF \E i \in 1..Len(table) : table[i][1] = key
  THEN table[CHOOSE i \in 1..Len(table) : table[i][1] = key][2]
  ELSE Undefined

transformStateCode(value, rowIndex) ==
  IF isBlank(value) THEN Outcome(Null, <<>>, 0)
  ELSE
    LET cleaned == trim(value)
        mapped == lookup(stateMapping, cleaned)
    IN  IF Len(cleaned) = 2 THEN Outcome(toUpperCase(cleaned), <<>>, 0)
        ELSE IF mapped # Undefined THEN Outcome(mapped, <<>>, 0)
        ELSE Outcome(Null, <<>>, 1)

\* The calendar day new Date() falls on (UTC) while the run executes.
Today == [year |-> 2024, month |-> 6, day |-> 15]

digitValue(c) == IndexIn(c, DigitChars) - 1

\* the number a string of decimal digits denotes
parseDigits(s) ==
  LET acc[i \in 0..Len(s)] == IF i = 0 THEN 0 ELSE 10 * acc[i-1] + digitValue(s[i])
  IN  acc[Len(s)]

\* n.toString().padStart(width, '0') for 0 <= n < 10^width
zeroPad(n, width) ==
  [i \in 1..width |-> DigitChars[((n \div (10 ^ (width - i))) % 10) + 1]]

\* s.padStart(2, '0')
padStart2(s) == IF Len(s) < 2 THEN <<"0">> \o s ELSE s

\* s.split(sep)
split(s, sep) ==
  LET acc[i \in 0..Len(s)] ==
        IF i = 0 THEN <<<<>>>>
        ELSE LET parts == acc[i-1]
             IN  IF s[i] = sep THEN Append(parts, <<>>)
                 ELSE [parts EXCEPT ![Len(parts)] = Append(@, s[i])]
  IN  acc[Len(s)]

isLeapYear(y) == (y % 4 = 0 /\ y % 100 # 0) \/ y % 400 = 0

daysInMonth(y, m) ==
  IF m = 2 THEN (IF isLeapYear(y) THEN 29 ELSE 28)
  ELSE IF m \in {4, 6, 9, 11} THEN 30 ELSE 31

\* new Date("YYYY-MM-DD") for digit strings of widths 4, 2, 2: the engine accepts
\* month 01..12 and day 01..31 and carries a day past the month's end into the
\* next month; anything else is an Invalid Date (None here, Some(date) otherwise).
newDate(year, month, day) ==
  LET y == parseDigits(year)
      m == parseDigits(month)
      d == parseDigits(day)
  IN  IF Len(year) # 4 \/ Len(month) # 2 \/ Len(day) # 2 THEN None
      ELSE IF m < 1 \/ m > 12 \/ d < 1 \/ d > 31 THEN None
      ELSE IF d <= daysInMonth(y, m) THEN Some([year |-> y, month |-> m, day |-> d])
      ELSE Some([year |-> y, month |-> m + 1, day |-> d - daysInMonth(y, m)])

\* date.toISOString().split('T')[0]
toISODate(date) ==
  zeroPad(date.year, 4) \o <<"-">> \o zeroPad(date.month, 2) \o <<"-">> \o zeroPad(date.day, 2)

\* date > new Date(): the parsed date is midnight UTC of its day
isFuture(date) ==
  \/ date.year > Today.year
  \/ date.year = Today.year /\ date.month > Today.month
  \/ date.year = Today.year /\ date.month = Today.month /\ date.day > Today.day

\* /^\d{4}-\d{2}-\d{2}$/
matchesIsoDate(s) ==
  /\ Len(s) = 10
  /\ s[5] = "-" /\ s[8] = "-"
  /\ \A i \in {1, 2, 3, 4, 6, 7, 9, 10} : IsDigit(s[i])

\* /^\d{1,2}SEP\d{1,2}SEP\d{4}$/ for SEP "/" or "-"
matchesShortDate(s, sep) ==
  LET parts == split(s, sep)
  IN  /\ Len(parts) = 3
      /\ Len(parts[1]) \in {1, 2} /\ AllDigits(parts[1])
      /\ Len(parts[2]) \in {1, 2} /\ AllDigits(parts[2])
      /\ Len(parts[3]) = 4 /\ AllDigits(parts[3])

transformRegisteredAt(value, rowIndex) ==
  IF isBlank(value) THEN Outcome(toISODate(Today), <<>>, 0)
  ELSE
    LET slash == split(value, "/")
        dash == split(value, "-")
        recognised == matchesIsoDate(value) \/ matchesShortDate(value, "/")
                        \/ matchesShortDate(value, "-")
        date == IF matchesIsoDate(value)
                  THEN newDate(SubSeq(value, 1, 4), SubSeq(value, 6, 7), SubSeq(value, 9, 10))
                ELSE IF matchesShortDate(value, "/")
                  THEN newDate(slash[3], padStart2(slash[1]), padStart2(slash[2]))
                ELSE newDate(dash[3], padStart2(dash[2]), padStart2(dash[1]))
    IN  IF ~recognised THEN Outcome(toISODate(Today), <<>>, 1)
        ELSE IF date = None THEN Outcome(toISODate(Today), <<>>, 1)
        ELSE Outcome(toISODate(date[1]), <<>>, IF isFuture(date[1]) THEN 1 ELSE 0)

statusMap ==
  <<
    <<<<"a","c","t","i","v","e">>, <<"A","c","t","i","v","e">>>>,
    <<<<"i","n","a","c","t","i","v","e">>, <<"I","n","a","c","t","i","v","e">>>>,
    <<<<"p","e","n","d","i","n","g">>, <<"P","e","n","d","i","n","g">>>>,
    <<<<"y","e","s">>, <<"A","c","t","i","v","e">>>>,
    <<<<"n","o">>, <<"I","n","a","c","t","i","v","e">>>>,
    <<<<"1">>, <<"A","c","t","i","v","e">>>>,
    <<<<"0">>, <<"I","n","a","c","t","i","v","e">>>>
  >>

transformStatus(value, rowIndex) ==
  IF isBlank(value) THEN Outcome(<<"A","c","t","i","v","e">>, <<>>, 0)
  ELSE
    LET mapped == lookup(statusMap, toLowerCase(trim(value)))
    IN  IF mapped # Undefined THEN Outcome(mapped, <<>>, 0)
        ELSE Outcome(<<"A","c","t","i","v","e">>, <<>>, 1)

(***************************************************************************)
(* Product and order normalizers of Transformer                            *)
(***************************************************************************)
\* n.toString() for an integer 0 <= n < 10^9
numberToString(n) ==
  zeroPad(n, CHOOSE w \in 1..9 : n < 10 ^ w /\ (w = 1 \/ n >= 10 ^ (w - 1)))

\* A JavaScript number n >= 0 (a string is made of single characters, so no
\* string equals a number) and the TypeError a call can end with.
Number(n) == <<"number">> \o numberToString(n)
isNumber(v) == Len(v) >= 1 /\ v[1] = "number"
TypeError == <<"TypeError">>

\* the length of the run of digits of s that starts at position i
digitRun(s, i) ==
  MinOf({j \in i..(Len(s) + 1) : j = Len(s) + 1 \/ ~IsDigit(s[j])}) - i

transformProductName(value, rowIndex) ==
  IF isBlank(value)
  THEN Outcome(Null,
               <<ValidationError(rowIndex, "product_name", value,
                   "Product name is required")>>, 0)
  ELSE Outcome(trim(value), <<>>, 0)

\* parseFloat(s) for s without exponent: None for NaN, else the sign and the
\* digits before and after the decimal point of the longest numeric prefix
parseFloat(s) ==
  LET t == trim(s)
      signed == Len(t) >= 1 /\ t[1] \in {"+", "-"}
      from == IF signed THEN 2 ELSE 1
      whole == digitRun(t, from)
      dot == from + whole
      hasDot == dot <= Len(t) /\ t[dot] = "."
      frac == IF hasDot THEN digitRun(t, dot + 1) ELSE 0
  IN  IF whole = 0 /\ frac = 0 THEN None
      ELSE Some([negative |-> signed /\ t[1] = "-",
                 whole |-> SubSeq(t, from, from + whole - 1),
                 fraction |-> SubSeq(t, dot + 1, dot + frac)])

\* price.toFixed(2) for price >= 0, from the hundredths nearest to it (the
\* third decimal decides; a decimal that lies exactly between two hundredths
\* is rounded by its binary value, which the digits alone do not give)
toFixed2(price) ==
  LET f == price.fraction \o <<"0", "0", "0">>
      hundredths == 100 * parseDigits(price.whole) + 10 * digitValue(f[1])
                      + digitValue(f[2]) + (IF digitValue(f[3]) >= 5 THEN 1 ELSE 0)
  IN  numberToString(hundredths \div 100) \o <<".">> \o zeroPad(hundredths % 100, 2)

isZero(price) == parseDigits(price.whole) = 0 /\ parseDigits(price.fraction) = 0

transformUnitPrice(value, rowIndex) ==
  IF isBlank(value)
  THEN Outcome(Null,
               <<ValidationError(rowIndex, "unit_price", value,
                   "Unit price is required")>>, 0)
  ELSE
    LET cleaned == trim(SelectSeq(value, LAMBDA c : c \notin {"$", ","}))
        price == parseFloat(cleaned)
    IN  IF price = None \/ (price[1].negative /\ ~isZero(price[1]))
        THEN Outcome(Null,
                     <<ValidationError(rowIndex, "unit_price", value,
                         "Invalid price format or negative value")>>, 0)
        ELSE Outcome(toFixed2(price[1]), <<>>, 0)

\* parseInt(s) for decimal s: None for NaN, else the sign and the digits
parseInt(s) ==
  LET kept == {i \in 1..Len(s) : ~IsSpace(s[i])}
      t == IF kept = {} THEN <<>> ELSE SubSeq(s, MinOf(kept), Len(s))
      signed == Len(t) >= 1 /\ t[1] \in {"+", "-"}
      from == IF signed THEN 2 ELSE 1
      whole == digitRun(t, from)
  IN  IF whole = 0 THEN None
      ELSE Some([negative |-> signed /\ t[1] = "-",
                 whole |-> SubSeq(t, from, from + whole - 1)])

transformQuantity(value, rowIndex) ==
  IF isBlank(value) THEN Outcome(Number(0), <<>>, 0)
  ELSE
    LET quantity == parseInt(value)
    IN  IF quantity = None \/ (quantity[1].negative /\ parseDigits(quantity[1].whole) # 0)
        THEN Outcome(Number(0), <<>>, 1)
        ELSE Outcome(Number(parseDigits(quantity[1].whole)), <<>>, 0)

\* /^ORD\d+$/
matchesOrderId(s) ==
  Len(s) >= 4 /\ SubSeq(s, 1, 3) = <<"O", "R", "D">> /\ AllDigits(SubSeq(s, 4, Len(s)))

transformOrderId(value, rowIndex) ==
  IF isBlank(value) THEN Outcome(Null, <<>>, 1)
  ELSE
    LET stripped == toUpperCase(SelectSeq(value, IsAlnum))
        cleaned == IF Len(stripped) >= 3 /\ SubSeq(stripped, 1, 3) = <<"O", "R", "D">>
                   THEN stripped ELSE <<"O", "R", "D">> \o stripped
    IN  IF ~matchesOrderId(cleaned)
        THEN Outcome(Null,
                     <<ValidationError(rowIndex, "order_id", value,
                         "Invalid format, must be ORD followed by numbers")>>, 0)
        ELSE Outcome(cleaned, <<>>, 0)

transformOrderDate(value, rowIndex) == transformRegisteredAt(value, rowIndex)

orderStatusMap ==
  <<
    <<<<"p","e","n","d","i","n","g">>, <<"P","e","n","d","i","n","g">>>>,
    <<<<"p","r","o","c","e","s","s","i","n","g">>, <<"P","r","o","c","e","s","s","i","n","g">>>>,
    <<<<"s","h","i","p","p","e","d">>, <<"S","h","i","p","p","e","d">>>>,
    <<<<"d","e","l","i","v","e","r","e","d">>, <<"D","e","l","i","v","e","r","e","d">>>>,
    <<<<"c","a","n","c","e","l","l","e","d">>, <<"C","a","n","c","e","l","l","e","d">>>>,
    <<<<"c","a","n","c","e","l","e","d">>, <<"C","a","n","c","e","l","l","e","d">>>>
  >>

transformOrderStatus(value, rowIndex) ==
  LET cleaned == toLowerCase(trim(IF value \in {Undefined, Null, <<>>}
                                  THEN <<"p","e","n","d","i","n","g">> ELSE value))
      mapped == lookup(orderStatusMap, cleaned)
  IN  Outcome(IF mapped # Undefined THEN mapped ELSE <<"P","e","n","d","i","n","g">>,
              <<>>, 0)

\* The field normalizers by name
Normalizers ==
  {"transformCustomerId", "transformFullName", "transformEmail", "transformPhone",
   "transformCity", "transformStateCode", "transformRegisteredAt", "transformStatus",
   "transformProductName", "transformUnitPrice", "transformQuantity",
   "transformOrderId", "transformOrderDate", "transformOrderStatus"}

normalizeString(f, value, rowIndex) ==
  CASE f = "transformCustomerId" -> transformCustomerId(value, rowIndex)
    [] f = "transformFullName" -> transformFullName(value, rowIndex)
    [] f = "transformEmail" -> transformEmail(value, rowIndex)
    [] f = "transformPhone" -> transformPhone(value, rowIndex)
    [] f = "transformCity" -> transformCity(value, rowIndex)
    [] f = "transformStateCode" -> transformStateCode(value, rowIndex)
    [] f = "transformRegisteredAt" -> transformRegisteredAt(value, rowIndex)
    [] f = "transformStatus" -> transformStatus(value, rowIndex)
    [] f = "transformProductName" -> transformProductName(value, rowIndex)
    [] f = "transformUnitPrice" -> transformUnitPrice(value, rowIndex)
    [] f = "transformQuantity" -> transformQuantity(value, rowIndex)
    [] f = "transformOrderId" -> transformOrderId(value, rowIndex)
    [] f = "transformOrderDate" -> transformOrderDate(value, rowIndex)
    [] f = "transformOrderStatus" -> transformOrderStatus(value, rowIndex)

\* this[f](value, rowIndex) for a string, null, undefined or number value: every
\* normalizer starts with `!value || value.trim() === ''` (transformOrderStatus
\* with `(value || 'pending').trim()`), so the number 0 is taken for an empty
\* value and any other number ends the call with a TypeError (no trim method).
normalize(f, value, rowIndex) ==
  IF isNumber(value)
  THEN IF value = Number(0) THEN normalizeString(f, Null, rowIndex)
       ELSE Outcome(TypeError, <<>>, 0)
  ELSE normalizeString(f, value, rowIndex)

(***************************************************************************)
(* Transformer: main transform functions                                   *)
(***************************************************************************)
\* row[k] of a JavaScript array (k counted from 0): undefined past its end
cell(row, k) == IF k + 1 <= Len(row) THEN row[k + 1] ELSE Undefined

\* The object literal `customer` of transformCustomers, built from the outcomes
\* of the eight normalizers in the order the literal calls them, with the
\* validation errors and the warnings those calls recorded.
customerRecord(id, name, email, phone, city, state, registered, status, rowIndex) ==
  [customer |->
     [customer_id |-> id.value,
      full_name |-> name.value,
      email |-> email.value,
      phone_number |-> phone.value,
      city |-> city.value,
      state_code |-> state.value,
      registered_at |-> registered.value,
      status |-> status.value,
      email_verified |-> FALSE,
      _rowIndex |-> rowIndex],
   errors |-> id.errors \o name.errors \o email.errors \o phone.errors
                \o city.errors \o state.errors \o registered.errors \o status.errors,
   warnings |-> id.warnings + name.warnings + email.warnings + phone.warnings
                  + city.warnings + state.warnings + registered.warnings
                  + status.warnings]

\* The body of the forEach callback of transformCustomers for one row.
transformCustomerRow(row, rowIndex) ==
  customerRecord(transformCustomerId(cell(row, 0), rowIndex),
                 transformFullName(cell(row, 1), rowIndex),
                 transformEmail(cell(row, 2), rowIndex),
                 transformPhone(cell(row, 3), rowIndex),
                 transformCity(cell(row, 4), rowIndex),
                 transformStateCode(cell(row, 5), rowIndex),
                 transformRegisteredAt(cell(row, 6), rowIndex),
                 transformStatus(cell(row, 7), rowIndex),
                 rowIndex)

\* transformed.push(customer), together with what the row's normalizers recorded
pushCustomer(prev, r) ==
  [transformed |-> Append(prev.transformed, r.customer),
   errors |-> prev.errors \o r.errors,
   warnings |-> prev.warnings + r.warnings]

\* Faulty variant: a row without any value is skipped instead of transformed.
forEachRow_SkipsEmptyRows(data) ==
  LET acc[n \in 0..Len(data)] ==
        IF n = 0 THEN [transformed |-> <<>>, errors |-> <<>>, warnings |-> 0]
        ELSE IF Len(data[n]) = 0 THEN acc[n-1]
        ELSE pushCustomer(acc[n-1], transformCustomerRow(data[n], (n - 1) + 2))
  IN  acc[Len(data)]

\* data.forEach((row, index) => ...) with rowIndex = index + 2; n is index + 1
forEachRow(data) ==
  LET acc[n \in 0..Len(data)] ==
        IF n = 0 THEN [transformed |-> <<>>, errors |-> <<>>, warnings |-> 0]
        ELSE pushCustomer(acc[n-1], transformCustomerRow(data[n], (n - 1) + 2))
  IN  acc[Len(data)]

\* What transformCustomers leaves: the records returned, the entries pushed on
\* this.validationErrors, the logger.warn calls and the 'transformed' count.
transformCustomersResult(final) ==
  [transformed |-> final.transformed,
   errors |-> final.errors,
   warnings |-> final.warnings,
   statsTransformed |-> Len(final.transformed)]

transformCustomers(rawData) == transformCustomersResult(forEachRow(rawData.data))

\* a || b
orElse(a, b) == IF a \in {Null, Undefined, <<>>} THEN b ELSE a

\* const key = customer.email || customer.customer_id
dedupKey(customer) == orElse(customer.email, customer.customer_id)

\* Map.prototype.has / get on a Map kept as <<key, value>> pairs
mapHas(map, key) == \E i \in 1..Len(map) : map[i][1] = key
mapGet(map, key) == map[CHOOSE i \in 1..Len(map) : map[i][1] = key][2]

\* How many entries of the duplicates list the warning carries: duplicates.slice(0, 5)
DuplicateSampleSize == 5

slice(s, from, to) == SubSeq(s, from + 1, IF to < Len(s) THEN to ELSE Len(s))

\* Faulty variant: the Map entry is overwritten by every later record of the key, so a
\* third record of a key is logged as a duplicate of the second.
dedupStep_RemembersLast(prev, customer, key) ==
  IF key \in {Null, Undefined, <<>>}
  THEN [prev EXCEPT !.unique = Append(@, customer),
                    !.warnings = @ + 1]
  ELSE IF mapHas(prev.seen, key)
  THEN [prev EXCEPT !.duplicates = Append(@, [row |-> customer._rowIndex,
                                              duplicateOf |-> mapGet(prev.seen, key),
                                              key |-> key]),
                    !.seen = <<<<key, customer._rowIndex>>>> \o @,
                    !.skipped = @ + 1]
  ELSE [prev EXCEPT !.seen = Append(@, <<key, customer._rowIndex>>),
                    !.unique = Append(@, customer)]

\* Faulty variant: the `if (!key)` pass-through is missing, so records without a key
\* collide with each other on the key null.
dedupStep_NullIsAKey(prev, customer, key) ==
  IF mapHas(prev.seen, key)
  THEN [prev EXCEPT !.duplicates = Append(@, [row |-> customer._rowIndex,
                                              duplicateOf |-> mapGet(prev.seen, key),
                                              key |-> key]),
                    !.skipped = @ + 1]
  ELSE [prev EXCEPT !.seen = Append(@, <<key, customer._rowIndex>>),
                    !.unique = Append(@, customer)]

\* Faulty variant: the later record of a key replaces the earlier one in unique.
dedupStep_LastWins(prev, customer, key) ==
  IF key \in {Null, Undefined, <<>>}
  THEN [prev EXCEPT !.unique = Append(@, customer),
                    !.warnings = @ + 1]
  ELSE IF mapHas(prev.seen, key)
  THEN [prev EXCEPT !.duplicates = Append(@, [row |-> customer._rowIndex,
                                              duplicateOf |-> mapGet(prev.seen, key),
                                              key |-> key]),
                    !.unique = Append(SelectSeq(@, LAMBDA u :
                                        u._rowIndex # mapGet(prev.seen, key)), customer),
                    !.seen = <<<<key, customer._rowIndex>>>> \o @,
                    !.skipped = @ + 1]
  ELSE [prev EXCEPT !.seen = Append(@, <<key, customer._rowIndex>>),
                    !.unique = Append(@, customer)]

\* The body of the forEach callback of deduplicateCustomers for one customer;
\* seen is the Map in insertion order, as <<key, rowIndex>> pairs.
dedupStep(prev, customer, key) ==
  IF key \in {Null, Undefined, <<>>}
  THEN [prev EXCEPT !.unique = Append(@, customer),
                    !.warnings = @ + 1]
  ELSE IF mapHas(prev.seen, key)
  THEN [prev EXCEPT !.duplicates = Append(@, [row |-> customer._rowIndex,
                                              duplicateOf |-> mapGet(prev.seen, key),
                                              key |-> key]),
                    !.skipped = @ + 1]
  ELSE [prev EXCEPT !.seen = Append(@, <<key, customer._rowIndex>>),
                    !.unique = Append(@, customer)]

\* customers.forEach(customer => ...)
forEachCustomer(customers) ==
  LET acc[n \in 0..Len(customers)] ==
        IF n = 0
        THEN [seen |-> <<>>, duplicates |-> <<>>, unique |-> <<>>,
              warnings |-> 0, skipped |-> 0]
        ELSE dedupStep(acc[n-1], customers[n], dedupKey(customers[n]))
  IN  acc[Len(customers)]

\* What deduplicateCustomers leaves after the loop: logged is the data of the
\* "Found n duplicate customer(s)" warning (None when it is not emitted).
dedupResult(final) ==
  [unique |-> final.unique,
   duplicates |-> final.duplicates,
   logged |-> IF Len(final.duplicates) > 0
              THEN Some(slice(final.duplicates, 0, DuplicateSampleSize))
              ELSE None,
   warnings |-> final.warnings + (IF Len(final.duplicates) > 0 THEN 1 ELSE 0),
   skipped |-> final.skipped]

\* deduplicateCustomers(customers) under config.etl.deduplicateData = dedupe
deduplicateCustomers(customers, dedupe) ==
  IF ~dedupe
  THEN [unique |-> customers, duplicates |-> <<>>, logged |-> None,
        warnings |-> 0, skipped |-> 0]
  ELSE dedupResult(forEachCustomer(customers))

\* Faulty variant: the errors are matched on the 0-based sheet position of the record
\* instead of its rowIndex.
recordErrors_ByPosition(validationErrors, record) ==
  SelectSeq(validationErrors, LAMBDA e : e.row = record._rowIndex - 2)

\* this.validationErrors.filter(e => e.row === record._rowIndex)
recordErrors(validationErrors, record) ==
  SelectSeq(validationErrors, LAMBDA e : e.row = record._rowIndex)

\* Faulty variant: a record with errors is counted as skipped but not kept in invalid.
validateStep_DropsInvalid(prev, record, errs) ==
  IF Len(errs) > 0
  THEN [prev EXCEPT !.skipped = @ + 1]
  ELSE [prev EXCEPT !.valid = Append(@, record)]

\* The body of the forEach callback of validate for one record
validateStep(prev, record, errs) ==
  IF Len(errs) > 0
  THEN [prev EXCEPT !.invalid = Append(@, [_errors |-> errs] @@ record),
                    !.skipped = @ + 1]
  ELSE [prev EXCEPT !.valid = Append(@, record)]

\* data.forEach(record => ...)
forEachRecord(data, validationErrors) ==
  LET acc[n \in 0..Len(data)] ==
        IF n = 0 THEN [valid |-> <<>>, invalid |-> <<>>, skipped |-> 0]
        ELSE validateStep(acc[n-1], data[n], recordErrors(validationErrors, data[n]))
  IN  acc[Len(data)]

validateResult(final) ==
  [valid |-> final.valid,
   invalid |-> final.invalid,
   skipped |-> final.skipped,
   warnings |-> IF Len(final.invalid) > 0 THEN 1 ELSE 0]

\* validate(data) against this.validationErrors
validate(data, validationErrors) ==
  validateResult(forEachRecord(data, validationErrors))

\* Faulty variant: transform() hands on the deduplicated list as valid whatever
\* validate found.
transformResult_IgnoresVerdict(t, d, v, validateBeforeLoad) ==
  [validationErrors |-> t.errors,
   transformedCustomers |-> t.transformed,
   unique |-> d.unique,
   duplicates |-> d.duplicates,
   duplicateLog |-> d.logged,
   customers |-> [valid |-> d.unique, invalid |-> v.invalid],
   statsTransformed |-> t.statsTransformed,
   skipped |-> d.skipped + (IF validateBeforeLoad THEN v.skipped ELSE 0),
   warnings |-> t.warnings + d.warnings + (IF validateBeforeLoad THEN v.warnings ELSE 0)]

\* The end of transform(): t, d and v are what transformCustomers,
\* deduplicateCustomers and validate returned; validate's part counts only when
\* config.etl.validateBeforeLoad made transform() call it.
transformResult(t, d, v, validateBeforeLoad) ==
  [validationErrors |-> t.errors,
   transformedCustomers |-> t.transformed,
   unique |-> d.unique,
   duplicates |-> d.duplicates,
   duplicateLog |-> d.logged,
   customers |-> IF validateBeforeLoad
                 THEN [valid |-> v.valid, invalid |-> v.invalid]
                 ELSE [valid |-> d.unique, invalid |-> <<>>],
   statsTransformed |-> t.statsTransformed,
   skipped |-> d.skipped + (IF validateBeforeLoad THEN v.skipped ELSE 0),
   warnings |-> t.warnings + d.warnings + (IF validateBeforeLoad THEN v.warnings ELSE 0)]

\* transform() from the call of deduplicateCustomers on
transformDeduplicated(t, d, flags) ==
  transformResult(t, d, validate(d.unique, t.errors), flags.validateBeforeLoad)

\* transform() after transformCustomers returned t
transformCustomersDone(t, flags) ==
  transformDeduplicated(t, deduplicateCustomers(t.transformed, flags.deduplicateData), flags)

\* transform(extractedData) under the flags of config.etl: this.validationErrors
\* starts empty; the customers sheet is always present in extractedData.
transform(extracted, flags) ==
  transformCustomersDone(transformCustomers(extracted.customers), flags)

(***************************************************************************)
(* The spreadsheet (source collaborator): sample rows and sheets            *)
(***************************************************************************)
CustomerHeader ==
  <<<<"C","u","s","t","o","m","e","r"," ","I","D">>,
     <<"N","a","m","e">>,
     <<"E","m","a","i","l">>,
     <<"P","h","o","n","e">>,
     <<"C","i","t","y">>,
     <<"S","t","a","t","e">>,
     <<"R","e","g","i","s","t","r","a","t","i","o","n"," ","D","a","t","e">>,
     <<"S","t","a","t","u","s">>>>

\* a valid customer C1 / a@b.cc
RowA ==
  <<<<"c","1">>,
     <<"A","l">>,
     <<"a","@","b",".","c","c">>>>

\* the same customer_id C1 with another email, all eight cells
RowB ==
  <<<<"C","-","1">>,
     <<"B","o">>,
     <<"d","@","b",".","c","c">>,
     <<"5","5","5","1","2","3","4">>,
     <<"R","e","n","o">>,
     <<"O","h","i","o">>,
     <<"2","0","2","4","-","0","1","-","1","5">>,
     <<"y","e","s">>>>

\* another customer_id C2 with the email of RowA
RowC ==
  <<<<"2">>,
     <<" ","A","l"," "," ","J","r"," ">>,
     <<"A","@","B",".","c","c"," ">>>>

\* a row with no values at all
RowD == <<>>

\* a customer_id C1 and nothing else
RowE ==
  <<<<"c","1">>>>

\* malformed identifier, suspicious name, invalid email, invalid optional fields
RowF ==
  <<<<"x">>,
     <<"7">>,
     <<"b","a","d">>,
     <<"1","2">>,
     <<>>,
     <<"M","a","r","s">>,
     <<"1","-","1","5","-","2","0","2","4">>,
     <<"g","o","n","e">>>>

\* no customer_id, the email of RowA
RowG ==
  <<<<>>,
     <<"A","l">>,
     <<"a","@","b",".","c","c">>>>

\* the email of RowA again, but no name
RowH ==
  <<<<"c","9">>,
     <<>>,
     <<"a","@","b",".","c","c">>>>

RowPool == {RowA, RowB, RowC, RowD, RowE, RowF, RowG, RowH}
PipelinePool == {RowA, RowC, RowD, RowF, RowG}
DupPool == {RowA, RowG}

\* Longest customers sheet (data rows) of the transform-only specification,
\* of the whole-pipeline specification and of the duplicate-log specification.
MaxRows == 3
MaxPipelineRows == 2
MaxDupRows == DuplicateSampleSize + 2

SeqsUpTo(S, n) == UNION {[1..k -> S] : k \in 0..n}

\* A response of spreadsheets.values.get: ok = FALSE when the call throws.
ApiError == [ok |-> FALSE, values |-> <<>>]
ApiValues(values) == [ok |-> TRUE, values |-> values]

CustomerResponses(pool, n) ==
  {ApiError, ApiValues(<<>>)}
    \cup {ApiValues(<<CustomerHeader>> \o data) : data \in SeqsUpTo(pool, n)}

OtherResponses ==
  {ApiError, ApiValues(<<>>), ApiValues(<<<<<<"h">>>>, <<<<"v">>>>>>)}

(***************************************************************************)
(* Logger.stats                                                            *)
(***************************************************************************)
InitialStats ==
  [extracted |-> 0, transformed |-> 0, loaded |-> 0,
   errors |-> 0, warnings |-> 0, skipped |-> 0]

\* generateReport(): the statistics written to the report file
generateReport(s) ==
  [status |-> IF s.errors = 0 THEN "SUCCESS" ELSE "COMPLETED_WITH_ERRORS",
   statistics |-> s]

(***************************************************************************)
(* Extractor                                                               *)
(***************************************************************************)
\* extractSheet(sheetName) on a response of the Sheets API
extractSheet(response) ==
  IF ~response.ok
  THEN [threw |-> TRUE, sheet |-> [headers |-> <<>>, data |-> <<>>],
        extracted |-> 0, errors |-> 1, warnings |-> 0]
  ELSE IF Len(response.values) = 0
  THEN [threw |-> FALSE, sheet |-> [headers |-> <<>>, data |-> <<>>],
        extracted |-> 0, errors |-> 0, warnings |-> 1]
  ELSE [threw |-> FALSE,
        sheet |-> [headers |-> response.values[1], data |-> Tail(response.values)],
        extracted |-> Len(response.values) - 1, errors |-> 0, warnings |-> 0]

\* extractAll() once initialize() and getSheetInfo() have succeeded; the three
\* sheet names of config.sheetNames are all configured.
extractAll(book) ==
  LET c == extractSheet(book.customers)
      o == extractSheet(book.orders)
      p == extractSheet(book.products)
  IN  IF c.threw
      THEN [threw |-> TRUE, data |-> None,
            extracted |-> 0, errors |-> c.errors, warnings |-> 0]
      ELSE [threw |-> FALSE,
            data |-> Some([customers |-> c.sheet,
                           orders |-> IF o.threw THEN None ELSE Some(o.sheet),
                           products |-> IF p.threw THEN None ELSE Some(p.sheet)]),
            extracted |-> c.extracted + o.extracted + p.extracted,
            errors |-> o.errors + p.errors,
            warnings |-> c.warnings + o.warnings + (IF o.threw THEN 1 ELSE 0)
                           + p.warnings + (IF p.threw THEN 1 ELSE 0)]

(***************************************************************************)
(* Loader                                                                  *)
(***************************************************************************)
\* The collaborator calls of Loader.load that can throw outside the per-record
\* try block, in the order they are made.
FailPoints == {"none", "initialize", "ensureStatesExist", "connect", "begin", "commit"}

\* persisted: the positions of the batch whose INSERT is committed when the call
\* is over (none after a ROLLBACK, or when BEGIN was never reached).
NoLoad ==
  [threw |-> TRUE, results |-> None, statsLoaded |-> 0, errors |-> 0, warnings |-> 0,
   persisted |-> {}]

\* Faulty variant: the per-record catch never rethrows, as if continueOnError
\* were always set.
loadCustomers_SwallowsError(customers, continue, failing, failAt) ==
  LET n == Len(customers)
      failed == Cardinality(failing)
      loaded == n - failed
  IN  IF n = 0
      THEN [threw |-> FALSE, results |-> Some([loaded |-> 0, failed |-> 0]),
            statsLoaded |-> 0, errors |-> 0, warnings |-> 1, persisted |-> {}]
      ELSE IF failAt \in {"ensureStatesExist", "connect"}
      THEN NoLoad
      ELSE IF failAt = "begin"
      THEN [NoLoad EXCEPT !.errors = 1]
      ELSE IF failAt = "commit"
      THEN [NoLoad EXCEPT !.statsLoaded = loaded, !.errors = failed + 1]
      ELSE [threw |-> FALSE,
            results |-> Some([loaded |-> loaded, failed |-> failed]),
            statsLoaded |-> loaded,
            errors |-> failed,
            warnings |-> IF failed > 0 THEN 1 ELSE 0,
            persisted |-> (1..n) \ failing]

\* loadCustomers(customers) with config.etl.continueOnError = continue, when the
\* records at the positions in failing make their INSERT (or getNextCustomerId)
\* throw and the collaborator call failAt throws.
loadCustomers(customers, continue, failing, failAt) ==
  LET n == Len(customers)
      attempted == IF continue \/ failing = {} THEN n ELSE MinOf(failing)
      failed == Cardinality({i \in failing : i <= attempted})
      loaded == attempted - failed
      aborted == ~continue /\ failing # {}
  IN  IF n = 0
      THEN [threw |-> FALSE, results |-> Some([loaded |-> 0, failed |-> 0]),
            statsLoaded |-> 0, errors |-> 0, warnings |-> 1, persisted |-> {}]
      ELSE IF failAt \in {"ensureStatesExist", "connect"}
      THEN NoLoad
      ELSE IF failAt = "begin"
      THEN [NoLoad EXCEPT !.errors = 1]
      ELSE IF aborted
      THEN [NoLoad EXCEPT !.statsLoaded = loaded, !.errors = failed + 1]
      ELSE IF failAt = "commit"
      THEN [NoLoad EXCEPT !.statsLoaded = loaded, !.errors = failed + 1]
      ELSE [threw |-> FALSE,
            results |-> Some([loaded |-> loaded, failed |-> failed]),
            statsLoaded |-> loaded,
            errors |-> failed,
            warnings |-> IF failed > 0 THEN 1 ELSE 0,
            persisted |-> (1..n) \ failing]

\* load(transformedData): only transformedData.customers exists, so loadProducts
\* and loadOrders are never called.
load(transformed, continue, failing, failAt) ==
  IF failAt = "initialize" THEN NoLoad
  ELSE loadCustomers(transformed.customers.valid, continue, failing, failAt)

\* The tables the loader writes. customers holds, for each customer_id, the
\* _rowIndex of the record that wrote the row last (0 for a row that was there
\* before the run); statements lists the INSERTs the transaction's client ran in
\* the last loadCustomers call, and transaction tells how that transaction ended.
EmptyDatabase ==
  [states |-> {}, customers |-> {}, statements |-> <<>>, transaction |-> "none"]

\* INSERT INTO customers ... ON CONFLICT (customer_id) DO UPDATE
upsert(customers, id, row) ==
  {c \in customers : c.customer_id # id} \cup {[customer_id |-> id, row |-> row]}

\* getNextCustomerId(): the query goes through this.pool, a connection other
\* than the transaction's client, so it sees the committed rows only.
getNextCustomerId(committed) ==
  LET numbers == {parseDigits(Tail(c.customer_id)) :
                    c \in {d \in committed : matchesCustomerId(d.customer_id)}}
  IN  IF numbers = {} THEN <<"C", "0", "0", "1">>
      ELSE <<"C">> \o zeroPad(MaxOf(numbers) + 1, 3)

\* ensureStatesExist(customers.map(c => c.state_code).filter(s => s)):
\* INSERT INTO states ... ON CONFLICT DO NOTHING on a client of its own, with
\* no transaction open, so every insert is committed at once.
ensureStatesExist(states, customers) ==
  states \cup {customers[i].state_code :
                 i \in {j \in 1..Len(customers) : customers[j].state_code # Null}}

\* The for loop of loadCustomers from record i on: txn is what the transaction's
\* client sees, committed what every other connection sees.
RECURSIVE insertCustomers(_, _, _, _, _, _)
insertCustomers(customers, i, attempted, failing, committed, txn) ==
  IF i > attempted THEN txn
  ELSE IF i \in failing
  THEN insertCustomers(customers, i + 1, attempted, failing, committed, txn)
  ELSE LET missing == customers[i].customer_id = Null
           id == IF missing THEN getNextCustomerId(committed)
                 ELSE customers[i].customer_id
           row == customers[i]._rowIndex
       IN  insertCustomers(customers, i + 1, attempted, failing, committed,
             [customers |-> upsert(txn.customers, id, row),
              statements |-> Append(txn.statements,
                               [customer_id |-> id, row |-> row, generated |-> missing])])

\* The database after load(transformedData), under the same failures as
\* loadCustomers above.
loadDatabase(database, customers, continue, failing, failAt) ==
  LET n == Len(customers)
      attempted == IF continue \/ failing = {} THEN n ELSE MinOf(failing)
      aborted == ~continue /\ failing # {}
      ensured == [database EXCEPT !.states = ensureStatesExist(@, customers),
                                  !.statements = <<>>,
                                  !.transaction = "none"]
      txn == insertCustomers(customers, 1, attempted, failing, database.customers,
                             [customers |-> database.customers, statements |-> <<>>])
  IN  IF failAt = "initialize" \/ n = 0 \/ failAt = "ensureStatesExist"
      THEN database
      ELSE IF failAt = "connect"
      THEN ensured
      ELSE IF failAt = "begin"
      THEN [ensured EXCEPT !.transaction = "rolled back"]
      ELSE IF aborted \/ failAt = "commit"
      THEN [ensured EXCEPT !.statements = txn.statements,
                           !.transaction = "rolled back"]
      ELSE [ensured EXCEPT !.customers = txn.customers,
                           !.statements = txn.statements,
                           !.transaction = "committed"]

(***************************************************************************)
(* State                                                                   *)
(***************************************************************************)
VARIABLES
  spreadsheet,          \* the source workbook: the API's response for each sheet
  pc,                   \* where ETLPipeline.run stands
  exitCode,             \* "none" while the process runs, else process.exit's code
  etl,                  \* config.etl flags
  stats,                \* Logger.stats
  extractedData,        \* run's extractedData, None until extractAll returned
  validationErrors,     \* Transformer.validationErrors
  transformedCustomers, \* what transformCustomers returned in the last transform()
  unique,               \* what deduplicateCustomers returned
  duplicates,           \* deduplicateCustomers' duplicates list
  duplicateLog,         \* the duplicates the "Found n duplicate" warning carried
  transformedData,      \* run's transformedData, None until transform returned
  loadResults,          \* run's loadResults, None until load returned
  customersTable,       \* the positions of the load batch committed to customers
  report,               \* the last report generateReport wrote, None before
  result,               \* what run returned, None before
  probe,                \* a normalizer applied on its own: its input and outcomes
  cancelRequested,      \* the caller has asked the run to stop
  activeSpreadsheet,    \* the Apps Script side: the active spreadsheet, None elsewhere
  db                    \* the database of schema.sql and sql/06_procedures.sql, None elsewhere

vars == <<spreadsheet, pc, exitCode, etl, stats, extractedData, validationErrors,
          transformedCustomers, unique, duplicates, duplicateLog, transformedData,
          loadResults, customersTable, report, result, probe, cancelRequested, activeSpreadsheet, db>>

\* config.etl as etl/config.js exports it
DefaultEtl ==
  [continueOnError |-> FALSE, validateBeforeLoad |-> TRUE, deduplicateData |-> TRUE]

StartOn(book, database) ==
  /\ spreadsheet = book
  /\ pc = "Idle"
  /\ exitCode = "none"
  /\ etl = DefaultEtl
  /\ stats = InitialStats
  /\ extractedData = None
  /\ validationErrors = <<>>
  /\ transformedCustomers = <<>>
  /\ unique = <<>>
  /\ duplicates = <<>>
  /\ duplicateLog = None
  /\ transformedData = None
  /\ loadResults = None
  /\ customersTable = {}
  /\ report = None
  /\ result = None
  /\ probe = None
  /\ cancelRequested = FALSE
  /\ activeSpreadsheet = None
  /\ db = database

\* a run against a database with no rows
Start(book) == StartOn(book, EmptyDatabase)

Workbooks(customerResponses, otherResponses) ==
  [customers : customerResponses, orders : otherResponses, products : otherResponses]

\* The whole pipeline over small customers sheets and every kind of
\* orders / products sheet.
Init == \E book \in Workbooks(CustomerResponses(PipelinePool, MaxPipelineRows),
                              OtherResponses) : Start(book)

(***************************************************************************)
(* main and ETLPipeline.run                                                *)
(***************************************************************************)
\* The catch block of run: log the error, write the report, process.exit(1).
Fail(s) ==
  /\ stats' = [s EXCEPT !.errors = @ + 1]
  /\ report' = Some(generateReport(stats'))
  /\ exitCode' = "1"
  /\ pc' = "Failed"

\* main(): --help exits at once; otherwise the flags are applied to config.etl
\* and run() starts, up to its first await (extractAll).
Main ==
  /\ pc = "Idle" /\ exitCode = "none"
  /\ \E help, continueOnError, noDedupe, noValidate \in BOOLEAN :
       IF help
       THEN /\ exitCode' = "0"
            /\ UNCHANGED <<pc, etl>>
       ELSE /\ etl' = [continueOnError |-> continueOnError,
                       validateBeforeLoad |-> ~noValidate,
                       deduplicateData |-> ~noDedupe]
            /\ pc' = "Extracting"
            /\ UNCHANGED exitCode
  /\ UNCHANGED <<spreadsheet, stats, extractedData, validationErrors,
                 transformedCustomers, unique, duplicates, duplicateLog,
                 transformedData, loadResults, customersTable, report, result, probe, cancelRequested, activeSpreadsheet, db>>

\* PHASE 1: await this.extractor.extractAll()
ExtractAll ==
  /\ pc = "Extracting" /\ exitCode = "none"
  /\ \E clientOk \in BOOLEAN :
       LET x == extractAll(spreadsheet)
           s == [stats EXCEPT !.extracted = @ + x.extracted,
                              !.errors = @ + x.errors,
                              !.warnings = @ + x.warnings]
       IN  \/ /\ ~clientOk
              /\ Fail(stats)
              /\ UNCHANGED extractedData
           \/ /\ clientOk /\ x.threw
              /\ Fail(s)
              /\ UNCHANGED extractedData
           \/ /\ clientOk /\ ~x.threw
              /\ extractedData' = x.data
              /\ stats' = s
              /\ pc' = "Transforming"
              /\ UNCHANGED <<exitCode, report>>
  /\ UNCHANGED <<spreadsheet, etl, validationErrors, transformedCustomers, unique,
                 duplicates, duplicateLog, transformedData, loadResults,
                 customersTable, result, probe, cancelRequested, activeSpreadsheet, db>>

\* PHASE 2: await this.transformer.transform(extractedData)
Transform ==
  /\ pc = "Transforming" /\ exitCode = "none"
  /\ LET t == transform(extractedData[1], etl)
     IN  /\ validationErrors' = t.validationErrors
         /\ transformedCustomers' = t.transformedCustomers
         /\ unique' = t.unique
         /\ duplicates' = t.duplicates
         /\ duplicateLog' = t.duplicateLog
         /\ transformedData' = Some([customers |-> t.customers])
         /\ stats' = [stats EXCEPT !.transformed = @ + t.statsTransformed,
                                   !.skipped = @ + t.skipped,
                                   !.warnings = @ + t.warnings]
  /\ pc' = "Loading"
  /\ UNCHANGED <<spreadsheet, exitCode, etl, extractedData, loadResults,
                 customersTable, report, result, probe, cancelRequested, activeSpreadsheet, db>>

\* PHASE 3: await this.loader.load(transformedData)
Load ==
  /\ pc = "Loading" /\ exitCode = "none"
  /\ LET valid == transformedData[1].customers.valid
     IN \E failAt \in FailPoints, failing \in SUBSET (1..Len(valid)) :
       /\ failAt = "ensureStatesExist" =>
            \E i \in 1..Len(valid) : valid[i].state_code # Null
       /\ db' = loadDatabase(db, valid, etl.continueOnError, failing, failAt)
       /\ LET l == load(transformedData[1], etl.continueOnError, failing, failAt)
              s == [stats EXCEPT !.loaded = @ + l.statsLoaded,
                                 !.errors = @ + l.errors,
                                 !.warnings = @ + l.warnings]
          IN  \/ /\ l.threw
                 /\ Fail(s)
                 /\ customersTable' = l.persisted
                 /\ UNCHANGED loadResults
              \/ /\ ~l.threw
                 /\ customersTable' = l.persisted
                 /\ loadResults' = Some([customers |-> l.results[1]])
                 /\ stats' = s
                 /\ pc' = "Summary"
                 /\ UNCHANGED <<exitCode, report>>
  /\ UNCHANGED <<spreadsheet, etl, extractedData, validationErrors,
                 transformedCustomers, unique, duplicates, duplicateLog,
                 transformedData, result, probe, cancelRequested, activeSpreadsheet>>

\* Faulty variant: load() is not awaited, so the summary and the success result can be
\* produced while the load is still running.
Summary_LoadNotAwaited ==
  /\ pc \in {"Loading", "Summary"} /\ exitCode = "none"
  /\ report' = Some(generateReport(stats))
  /\ result' = Some([success |-> TRUE, report |-> generateReport(stats)])
  /\ pc' = "Done"
  /\ UNCHANGED <<spreadsheet, exitCode, etl, stats, extractedData, validationErrors,
                 transformedCustomers, unique, duplicates, duplicateLog,
                 transformedData, loadResults, customersTable, probe, cancelRequested, activeSpreadsheet, db>>

\* SUMMARY: await this.printSummary(...), generateReport(), return
Summary ==
  /\ pc = "Summary" /\ exitCode = "none"
  /\ report' = Some(generateReport(stats))
  /\ result' = Some([success |-> TRUE, report |-> generateReport(stats)])
  /\ pc' = "Done"
  /\ UNCHANGED <<spreadsheet, exitCode, etl, stats, extractedData, validationErrors,
                 transformedCustomers, unique, duplicates, duplicateLog,
                 transformedData, loadResults, customersTable, probe, cancelRequested, activeSpreadsheet, db>>

Next == Main \/ ExtractAll \/ Transform \/ Load \/ Summary

Spec == Init /\ [][Next]_vars

\* The Transformer alone (as etl/test-etl.js drives it: extract, then transform)
\* over every customers sheet of up to MaxRows rows of RowPool.
InitTransform ==
  \E book \in Workbooks(CustomerResponses(RowPool, MaxRows), {ApiError}) : Start(book)

NextTransform == Main \/ ExtractAll \/ Transform

SpecTransform == InitTransform /\ [][NextTransform]_vars

\* Customers sheets long enough to hold more duplicates than the duplicate
\* warning carries.
InitDup ==
  \E book \in Workbooks(CustomerResponses(DupPool, MaxDupRows), {ApiError}) : Start(book)

SpecDup == InitDup /\ [][NextTransform]_vars

(***************************************************************************)
(* Normalizers on their own: raw cell values for every field normalizer    *)
(***************************************************************************)
\* Raw values of a cell, per normalizer; every normalizer is also given the
\* undefined of a cell past the end of its row.
RawValues ==
  [transformCustomerId |->
     {<<>>,
       <<"c","1">>,
       <<"C","0","0","1">>,
       <<"C","-","1">>,
       <<"x">>,
       <<" ","4","2"," ">>,
       <<"C","C","1">>},
   transformFullName |->
     {<<>>,
       <<" "," ">>,
       <<" ","A","l"," "," ","J","r"," ">>,
       <<"7">>,
       <<"A","l">>},
   transformEmail |->
     {<<>>,
       <<"a","@","b",".","c","c">>,
       <<"A","@","B",".","c","c"," ">>,
       <<"C","H","A","R","L","I","E",".","B","R","O","W","N","@","E","M","A","I","L",".","C","O","M">>,
       <<"n","o","t","-","a","n","-","e","m","a","i","l">>,
       <<"a","@","b",".","c">>,
       <<"a","!","b","@","c",".","d","d">>,
       <<"a","@","b">>,
       <<"a"," ","b","@","c",".","d","d">>,
       <<"a","@","b",".","c","1">>},
   transformPhone |->
     {<<>>,
       <<"5","5","5","1","2","3","4">>,
       <<"5","5","5","-","0","1","0","1">>,
       <<"(","5","5","5",")"," ","0","1","0","6">>,
       <<"+","1","-","5","5","5","-","0","1","1","8">>,
       <<"5","5","5","-","C","A","L","L">>,
       <<"5","5","5","1","2","3","4","5","6","7">>,
       <<"1","5","5","5","1","2","3","4","5","6","7">>,
       <<"(","5","5","5",")"," ","1","2","3","-","4","5","6","7">>,
       <<"1","2">>},
   transformCity |->
     {<<>>,
       <<" ","R","e","n","o"," ">>,
       <<"N","e","w"," "," ","Y","o","r","k">>},
   transformStateCode |->
     {<<>>,
       <<"o","h">>,
       <<"O","h","i","o">>,
       <<"M","a","r","s">>,
       <<" ","N","Y"," ">>,
       <<"o","h","i","o">>},
   transformRegisteredAt |->
     {<<>>,
       <<"2","0","2","4","-","0","1","-","1","5">>,
       <<"1","5","-","0","1","-","2","0","2","4">>,
       <<"0","1","-","1","5","-","2","0","2","4">>,
       <<"0","3","-","0","5","-","2","0","2","4">>,
       <<"0","5","-","0","3","-","2","0","2","4">>,
       <<"1","/","1","5","/","2","0","2","4">>,
       <<"0","1","/","2","0","/","2","0","2","4">>,
       <<"2","0","2","4","/","0","1","/","2","0">>,
       <<"i","n","v","a","l","i","d","-","d","a","t","e">>,
       <<"2","0","9","9","-","0","1","-","0","1">>,
       <<"2","0","2","4","-","0","2","-","3","0">>,
       <<"2","0","2","4","-","1","3","-","0","1">>,
       <<"1","3","/","0","1","/","2","0","2","4">>,
       <<" ","2","0","2","4","-","0","1","-","1","5"," ">>,
       <<"2","0","2","4","-","0","6","-","1","5">>,
       <<"2","0","2","4","-","0","6","-","1","6">>},
   transformStatus |->
     {<<>>,
       <<"y","e","s">>,
       <<"A","C","T","I","V","E">>,
       <<"g","o","n","e">>,
       <<" ","P","e","n","d","i","n","g"," ">>,
       <<"0">>},
   transformProductName |->
     {<<>>,
       <<" ","P","e","n"," ">>,
       <<"P","e","n">>},
   transformUnitPrice |->
     {<<>>,
       <<"$","1",",","2","3","4",".","5">>,
       <<"1","2",".","3","4","9">>,
       <<"a","b","c">>,
       <<"-","5">>,
       <<"7">>,
       <<"0">>},
   transformQuantity |->
     {<<>>,
       <<"5">>,
       <<" ","1","2"," ">>,
       <<"a","b","c">>,
       <<"-","3">>,
       <<"0">>,
       <<"7",".","9">>,
       <<"1","0">>},
   transformOrderId |->
     {<<>>,
       <<"o","r","d","-","7">>,
       <<"7">>,
       <<"x">>,
       <<"O","R","D","0","0","7">>},
   transformOrderDate |->
     {<<>>,
       <<"2","0","2","4","/","0","1","/","2","0">>,
       <<"i","n","v","a","l","i","d","-","d","a","t","e">>,
       <<"2","0","2","4","-","0","1","-","1","5">>,
       <<"1","/","1","5","/","2","0","2","4">>,
       <<"1","5","-","0","1","-","2","0","2","4">>},
   transformOrderStatus |->
     {<<>>,
       <<"s","h","i","p","p","e","d">>,
       <<"C","a","n","c","e","l","e","d">>,
       <<"l","o","s","t">>,
       <<" ","P","E","N","D","I","N","G"," ">>}]

\* Before the call: one normalizer f and one raw value x are chosen.
Probe(f, x) == Some([normalizer |-> f, input |-> x, first |-> None, second |-> None])

InitNormalize ==
  /\ spreadsheet = [customers |-> ApiError, orders |-> ApiError, products |-> ApiError]
  /\ pc = "Idle"
  /\ exitCode = "none"
  /\ etl = DefaultEtl
  /\ stats = InitialStats
  /\ extractedData = None
  /\ validationErrors = <<>>
  /\ transformedCustomers = <<>>
  /\ unique = <<>>
  /\ duplicates = <<>>
  /\ duplicateLog = None
  /\ transformedData = None
  /\ loadResults = None
  /\ customersTable = {}
  /\ report = None
  /\ result = None
  /\ \E f \in Normalizers : \E x \in RawValues[f] \cup {Undefined} : probe = Probe(f, x)
  /\ cancelRequested = FALSE
  /\ activeSpreadsheet = None
  /\ db = None

\* this[f](x, rowIndex): the normalizer is called on the raw value, as the
\* forEach callback of transformCustomers calls it on a cell of row 2
Normalize ==
  /\ probe # None /\ probe[1].first = None
  /\ probe' = Some([probe[1] EXCEPT
                     !.first = Some(normalize(probe[1].normalizer, probe[1].input, 2))])
  /\ UNCHANGED <<spreadsheet, pc, exitCode, etl, stats, extractedData, validationErrors,
                 transformedCustomers, unique, duplicates, duplicateLog,
                 transformedData, loadResults, customersTable, report, result,
                 cancelRequested, activeSpreadsheet, db>>

\* this[f](this[f](x, rowIndex), rowIndex): the normalizer is called on the
\* non-null value it returned
Renormalize ==
  /\ probe # None /\ probe[1].first # None /\ probe[1].second = None
  /\ probe[1].first[1].value \notin {Null, TypeError}
  /\ probe' = Some([probe[1] EXCEPT
                     !.second = Some(normalize(probe[1].normalizer,
                                               probe[1].first[1].value, 2))])
  /\ UNCHANGED <<spreadsheet, pc, exitCode, etl, stats, extractedData, validationErrors,
                 transformedCustomers, unique, duplicates, duplicateLog,
                 transformedData, loadResults, customersTable, report, result,
                 cancelRequested, activeSpreadsheet, db>>

NextNormalize == Normalize \/ Renormalize

SpecNormalize == InitNormalize /\ [][NextNormalize]_vars

(***************************************************************************)
(* schema.sql: the constraints of table customers                          *)
(***************************************************************************)
\* CREATE TYPE customer_status_enum
customer_status_enum ==
  {<<"A","c","t","i","v","e">>, <<"I","n","a","c","t","i","v","e">>,
   <<"P","e","n","d","i","n","g">>}

\* CHECK (customer_id ~ '^C[0-9]+$')
chk_customer_id_format(customer_id) ==
  /\ Len(customer_id) >= 2
  /\ customer_id[1] = "C"
  /\ \A i \in 2..Len(customer_id) : IsDigit(customer_id[i])

\* CHECK (email ~* '^[A-Za-z0-9._%+-]+@[A-Za-z0-9.-]+\.[A-Za-z]{2,}$')
chk_email_format(email) ==
  \E at \in 2..Len(email) : \E dot \in (at + 2)..(Len(email) - 2) :
    /\ email[at] = "@"
    /\ \A i \in 1..(at - 1) : IsAlnum(email[i]) \/ email[i] \in {".", "_", "%", "+", "-"}
    /\ \A i \in (at + 1)..(dot - 1) : IsAlnum(email[i]) \/ email[i] \in {".", "-"}
    /\ email[dot] = "."
    /\ \A i \in (dot + 1)..Len(email) : IsLetter(email[i])

\* CHECK (phone_number IS NULL OR phone_number ~ '^[0-9]{3}-[0-9]{4}$'
\*        OR phone_number ~ '^[0-9]{10}$')
chk_phone_format(phone_number) ==
  \/ phone_number = Null
  \/ /\ Len(phone_number) = 8
     /\ phone_number[4] = "-"
     /\ \A i \in {1, 2, 3, 5, 6, 7, 8} : IsDigit(phone_number[i])
  \/ Len(phone_number) = 10 /\ AllDigits(phone_number)

\* the DATE a 'YYYY-MM-DD' parameter is stored as
dateOf(s) ==
  [year |-> parseDigits(SubSeq(s, 1, 4)),
   month |-> parseDigits(SubSeq(s, 6, 7)),
   day |-> parseDigits(SubSeq(s, 9, 10))]

\* CHECK (registered_at <= CURRENT_DATE)
chk_registered_date(registered_at) ==
  LET d == dateOf(registered_at)
  IN  \/ d.year < Today.year
      \/ d.year = Today.year /\ d.month < Today.month
      \/ d.year = Today.year /\ d.month = Today.month /\ d.day <= Today.day

(***************************************************************************)
(* One-row customers sheets: a clean row with one cell replaced            *)
(***************************************************************************)
\* a row without any defect
BaseRow ==
  <<<<"c","1">>,
     <<"A","l">>,
     <<"a","@","b",".","c","c">>,
     <<"5","5","5","1","2","3","4">>,
     <<"R","e","n","o">>,
     <<"O","H">>,
     <<"2","0","2","4","-","0","1","-","1","5">>,
     <<"a","c","t","i","v","e">>>>

\* the normalizer transformCustomers applies to row[0] .. row[7]
ColumnNormalizers ==
  <<"transformCustomerId", "transformFullName", "transformEmail", "transformPhone",
    "transformCity", "transformStateCode", "transformRegisteredAt", "transformStatus">>

FieldRows ==
  UNION {{[BaseRow EXCEPT ![k] = x] : x \in RawValues[ColumnNormalizers[k]]} : k \in 1..8}

\* The Transformer over every one-row customers sheet of FieldRows
InitFields ==
  \E book \in Workbooks({ApiError} \cup {ApiValues(<<CustomerHeader, row>>) : row \in FieldRows},
                        {ApiError}) : Start(book)

SpecFields == InitFields /\ [][NextTransform]_vars

(***************************************************************************)
(* Apps Script: the spreadsheet-side validator of Code.gs                  *)
(***************************************************************************)
\* /^[^\s@]+@[^\s@]+\.[^\s@]+$/
matchesLooseEmail(s) ==
  \E at \in 2..Len(s) : \E dot \in (at + 2)..(Len(s) - 1) :
    /\ s[at] = "@" /\ s[dot] = "."
    /\ \A i \in 1..Len(s) : ~IsSpace(s[i]) /\ (s[i] = "@" => i = at)

\* value.replace(/\D/g, '')
digitsOf(value) == SelectSeq(value, IsDigit)

\* getRowData: the row as an object keyed by the cells of row 1; getValues
\* gives '' for a cell without content. Cells are plain text.
getRowData(sheet, rowNumber) ==
  LET headers == sheet[1]
      values == sheet[rowNumber]
  IN  [header \in {headers[i] : i \in 1..Len(headers)} |->
         LET index == MaxOf({i \in 1..Len(headers) : headers[i] = header})
         IN  IF index <= Len(values) /\ values[index] # Undefined
             THEN values[index] ELSE <<>>]

\* data[field], undefined for a key the object does not have
dataField(data, field) == IF field \in DOMAIN data THEN data[field] ELSE Undefined

\* a value `if (value)` takes for true
truthy(value) == value \notin {Undefined, Null, <<>>}

REQUIRED_FIELDS ==
  <<<<"C","u","s","t","o","m","e","r"," ","I","D">>,
    <<"N","a","m","e">>,
    <<"E","m","a","i","l">>>>

\* `${field} is required`
requiredMessage(field) ==
  CASE field = REQUIRED_FIELDS[1] -> "Customer ID is required"
    [] field = REQUIRED_FIELDS[2] -> "Name is required"
    [] field = REQUIRED_FIELDS[3] -> "Email is required"

validStatuses ==
  {<<"A","c","t","i","v","e">>, <<"I","n","a","c","t","i","v","e">>,
   <<"P","e","n","d","i","n","g">>, <<"a","c","t","i","v","e">>,
   <<"i","n","a","c","t","i","v","e">>, <<"p","e","n","d","i","n","g">>}

\* What `new Date(string)` can be for validateRowData: "invalid" (NaN time),
\* "future" (after new Date()) or "past". Only a YYYY-MM-DD string naming a
\* day of the calendar is parsed the same by every engine; for any other
\* string holding a digit the outcome is implementation-defined.
DateVerdicts(s) ==
  IF matchesIsoDate(s)
     /\ parseDigits(SubSeq(s, 6, 7)) \in 1..12
     /\ parseDigits(SubSeq(s, 9, 10))
          \in 1..daysInMonth(parseDigits(SubSeq(s, 1, 4)), parseDigits(SubSeq(s, 6, 7)))
  THEN {IF isFuture([year |-> parseDigits(SubSeq(s, 1, 4)),
                     month |-> parseDigits(SubSeq(s, 6, 7)),
                     day |-> parseDigits(SubSeq(s, 9, 10))])
        THEN "future" ELSE "past"}
  ELSE IF digitsOf(s) = <<>> THEN {"invalid"}
  ELSE {"invalid", "past", "future"}

\* the errors validateRowData pushes, in order, when new Date gives `date`
rowErrors(data, date) ==
  LET id == dataField(data, REQUIRED_FIELDS[1])
      email == dataField(data, REQUIRED_FIELDS[3])
      phone == dataField(data, <<"P","h","o","n","e">>)
      status == dataField(data, <<"S","t","a","t","u","s">>)
      registered == dataField(data,
        <<"R","e","g","i","s","t","r","a","t","i","o","n"," ","D","a","t","e">>)
      required == SelectSeq(REQUIRED_FIELDS, LAMBDA f : isBlank(dataField(data, f)))
  IN  [i \in 1..Len(required) |-> requiredMessage(required[i])]
      \o (IF truthy(id) /\ ~matchesCustomerId(trim(id))
          THEN <<"Customer ID must be in format C### (e.g., C001)">> ELSE <<>>)
      \o (IF truthy(email) /\ ~matchesLooseEmail(trim(email))
          THEN <<"Invalid email format">> ELSE <<>>)
      \o (IF ~isBlank(phone) /\ Len(digitsOf(phone)) \notin {7, 10}
          THEN <<"Phone must be 7 or 10 digits">> ELSE <<>>)
      \o (IF truthy(status) /\ status \notin validStatuses
          THEN <<"Status must be Active, Inactive, or Pending">> ELSE <<>>)
      \o (IF ~isBlank(registered) /\ date = "invalid"
          THEN <<"Invalid registration date format">> ELSE <<>>)
      \o (IF ~isBlank(registered) /\ date = "future"
          THEN <<"Registration date cannot be in the future">> ELSE <<>>)

\* validateRowData: every result it can return for the row, one per outcome
\* of new Date(data['Registration Date'])
validateRowData(data, rowNumber) ==
  LET registered == dataField(data,
        <<"R","e","g","i","s","t","r","a","t","i","o","n"," ","D","a","t","e">>)
      dates == IF isBlank(registered) THEN {"past"} ELSE DateVerdicts(registered)
  IN  {[valid |-> rowErrors(data, date) = <<>>, errors |-> rowErrors(data, date)] :
         date \in dates}

\* headers.indexOf(columnName) + 1 over the cells of row 1
getColumnIndex(sheet, columnName) ==
  IF \E i \in 1..Len(sheet[1]) : sheet[1][i] = columnName
  THEN MinOf({i \in 1..Len(sheet[1]) : sheet[1][i] = columnName})
  ELSE 0

StatusColumn == <<"S","t","a","t","u","s">>

Validated_ == <<"V","a","l","i","d","a","t","e","d">>
Registered_ == <<"R","e","g","i","s","t","e","r","e","d">>
Invalid_ == <<"I","n","v","a","l","i","d">>
RegistrationFailed_ ==
  <<"R","e","g","i","s","t","r","a","t","i","o","n"," ","F","a","i","l","e","d">>
Error_ == <<"E","r","r","o","r">>

\* range.setValue(value) on the cell (rowNumber, column); cells the row does
\* not hold yet are empty
setValue(sheet, rowNumber, column, value) ==
  LET row == sheet[rowNumber]
      padded == [k \in 1..MaxOf({Len(row), column}) |->
                   IF k <= Len(row) THEN row[k] ELSE <<>>]
  IN  [sheet EXCEPT ![rowNumber] = [padded EXCEPT ![column] = value]]

\* statusCell.getValue()
getStatus(sheet, rowNumber) ==
  LET column == getColumnIndex(sheet, StatusColumn)
  IN  IF column <= Len(sheet[rowNumber]) THEN sheet[rowNumber][column] ELSE <<>>

\* setStatus on the active spreadsheet
setStatus(ss, rowNumber, status) ==
  LET statusColumn == getColumnIndex(ss.Sheet1, StatusColumn)
  IN  IF statusColumn > 0
      THEN [ss EXCEPT !.Sheet1 = setValue(@, rowNumber, statusColumn, status)]
      ELSE ss

\* highlightRow
highlightRow(ss, rowNumber, color) ==
  [ss EXCEPT !.backgrounds = [r \in DOMAIN @ \cup {rowNumber} |->
                                IF r = rowNumber THEN color ELSE @[r]]]

\* addComment: the note of the row's first cell
addComment(ss, rowNumber, comment) ==
  [ss EXCEPT !.notes = [r \in DOMAIN @ \cup {rowNumber} |->
                          IF r = rowNumber THEN comment ELSE @[r]]]

\* sendNotification (CONFIG.SEND_NOTIFICATIONS and ADMIN_EMAIL are set)
sendNotification(ss, subject) == [ss EXCEPT !.mails = Append(@, subject)]

LogHeader == [timestamp |-> 0, level |-> "Level"]

\* appendToLogSheet: the Logs sheet is created with its header row when
\* missing; the entry carries the time of the call
appendToLogSheet(ss, level) ==
  LET logSheet == IF ss.Logs = None THEN <<LogHeader>> ELSE ss.Logs[1]
  IN  [ss EXCEPT !.Logs = Some(Append(logSheet,
                                      [timestamp |-> ss.clock, level |-> level]))]

\* registerToDatabase: the mock registration without a configured
\* API_ENDPOINT, else whatever the API answers
registerToDatabase(ss) ==
  IF ss.apiConfigured THEN {[success |-> TRUE], [success |-> FALSE]}
  ELSE {[success |-> TRUE]}

\* What processRow meets on its way: whether a spreadsheet service call of the
\* try block throws, the result of validateRowData and of registerToDatabase.
RowOutcomes(ss, rowNumber) ==
  {[threw |-> TRUE, validation |-> [valid |-> FALSE, errors |-> <<>>],
    registered |-> [success |-> FALSE]]}
    \cup {[threw |-> FALSE, validation |-> v, registered |-> g] :
            v \in validateRowData(getRowData(ss.Sheet1, rowNumber), rowNumber),
            g \in registerToDatabase(ss)}

\* processRow, given what it meets: the spreadsheet afterwards and what it
\* returns
processRow(ss, rowNumber, met) ==
  IF met.threw
  THEN [ss |-> appendToLogSheet(
                 setStatus(highlightRow(ss, rowNumber, "COLOR_INVALID"),
                           rowNumber, Error_), "ERROR"),
        result |-> [row |-> rowNumber, valid |-> FALSE, registered |-> FALSE]]
  ELSE IF met.validation.valid
  THEN LET validated == setStatus(highlightRow(ss, rowNumber, "COLOR_VALID"),
                                  rowNumber, Validated_)
       IN  IF met.registered.success
           THEN [ss |-> appendToLogSheet(setStatus(validated, rowNumber, Registered_),
                                         "SUCCESS"),
                 result |-> [row |-> rowNumber, valid |-> TRUE, registered |-> TRUE]]
           ELSE [ss |-> sendNotification(
                          appendToLogSheet(
                            addComment(setStatus(validated, rowNumber, RegistrationFailed_),
                                       rowNumber, <<"Registration error">>),
                            "ERROR"),
                          "Registration Failed"),
                 result |-> [row |-> rowNumber, valid |-> TRUE, registered |-> FALSE]]
  ELSE [ss |-> sendNotification(
                 appendToLogSheet(
                   addComment(setStatus(highlightRow(ss, rowNumber, "COLOR_INVALID"),
                                        rowNumber, Invalid_),
                              rowNumber, met.validation.errors),
                   "VALIDATION_ERROR"),
                 "Invalid Entry Detected"),
        result |-> [row |-> rowNumber, valid |-> FALSE, registered |-> FALSE]]

\* Faulty variant: only rows already registered are skipped.
processRows_SkipsRegisteredOnly(ss, row, lastRow, met) ==
  LET step[r \in (row - 1)..lastRow] ==
        IF r = row - 1 THEN [ss |-> ss, results |-> <<>>]
        ELSE LET prev == step[r - 1]
             IN  IF getStatus(prev.ss.Sheet1, r) = Registered_
                 THEN prev
                 ELSE LET p == processRow(prev.ss, r, met[r])
                      IN  [ss |-> p.ss, results |-> Append(prev.results, p.result)]
  IN  step[lastRow]

\* for (let row = 2; row <= lastRow; row++): rows marked Validated or
\* Registered are skipped, processRow runs on every other row; met[r] is what
\* the processRow of row r meets
processRows(ss, row, lastRow, met) ==
  LET step[r \in (row - 1)..lastRow] ==
        IF r = row - 1 THEN [ss |-> ss, results |-> <<>>]
        ELSE LET prev == step[r - 1]
             IN  IF getStatus(prev.ss.Sheet1, r) \in {Validated_, Registered_}
                 THEN prev
                 ELSE LET p == processRow(prev.ss, r, met[r])
                      IN  [ss |-> p.ss, results |-> Append(prev.results, p.result)]
  IN  step[lastRow]

\* processAllRows: the menu command
processAllRows(ss, met) ==
  LET lastRow == Len(ss.Sheet1)
  IN  IF lastRow >= 2 /\ getColumnIndex(ss.Sheet1, StatusColumn) = 0
      THEN [ss |-> appendToLogSheet(ss, "ERROR"), results |-> <<>>]
      ELSE processRows(ss, 2, lastRow, met)

\* processAllRowsScheduled: the hourly trigger; it also logs its run
processAllRowsScheduled(ss, met) ==
  LET lastRow == Len(ss.Sheet1)
  IN  IF lastRow >= 2 /\ getColumnIndex(ss.Sheet1, StatusColumn) = 0
      THEN [ss |-> appendToLogSheet(ss, "ERROR"), results |-> <<>>]
      ELSE LET done == processRows(ss, 2, lastRow, met)
           IN  [ss |-> appendToLogSheet(done.ss, "SCHEDULED"), results |-> done.results]

\* logSheet.deleteRows(rowPosition, howMany)
deleteRows(logSheet, rowPosition, howMany) ==
  SubSeq(logSheet, 1, rowPosition - 1)
    \o SubSeq(logSheet, rowPosition + howMany, Len(logSheet))

\* the number of rows dailyCleanup lets the Logs sheet keep
KeptLogRows == 1000

\* dailyCleanup: the daily trigger
dailyCleanup(ss) ==
  IF ss.Logs = None THEN ss
  ELSE LET lastRow == Len(ss.Logs[1])
       IN  IF lastRow > KeptLogRows
           THEN [ss EXCEPT !.Logs = Some(deleteRows(@[1], 2, lastRow - KeptLogRows))]
           ELSE ss

\* the edits of a cell the user makes: a well-formed identifier, another
\* city, a status of the documented list
Edits ==
  {[column |-> 1, value |-> <<"C","0","0","1">>],
   [column |-> 5, value |-> <<"T","r","o","y">>],
   [column |-> 8, value |-> <<"A","c","t","i","v","e">>]}

\* the triggers handled per behaviour
MaxEvents == 2

NoEvent == [trigger |-> "none", row |-> 0, column |-> 0, results |-> <<>>]

\* The bound spreadsheet: the customers sheet, no Logs sheet yet
Spreadsheet(sheet1, apiConfigured) ==
  [Sheet1 |-> sheet1, Logs |-> None, backgrounds |-> <<>>, notes |-> <<>>,
   mails |-> <<>>, clock |-> 0, apiConfigured |-> apiConfigured, event |-> NoEvent]

\* what the processRow of each data row meets during one run over the sheet
RECURSIVE MetUpTo(_, _)
MetUpTo(ss, lastRow) ==
  IF lastRow < 2 THEN {[r \in {} |-> 0]}
  ELSE {[r \in 2..lastRow |-> IF r = lastRow THEN last ELSE met[r]] :
          met \in MetUpTo(ss, lastRow - 1), last \in RowOutcomes(ss, lastRow)}

MetByRow(ss) == MetUpTo(ss, Len(ss.Sheet1))

\* onEdit(e): the user has edited a cell of a data row of the customers sheet
OnEdit ==
  /\ activeSpreadsheet # None /\ activeSpreadsheet[1].clock < MaxEvents
  /\ \E row \in 2..Len(activeSpreadsheet[1].Sheet1), edit \in Edits :
       LET edited == [activeSpreadsheet[1] EXCEPT
                        !.Sheet1 = setValue(@, row, edit.column, edit.value),
                        !.clock = @ + 1]
       IN  \E met \in RowOutcomes(edited, row) :
             LET p == processRow(edited, row, met)
             IN  activeSpreadsheet' =
                   Some([p.ss EXCEPT !.event = [trigger |-> "onEdit", row |-> row,
                                                column |-> edit.column,
                                                results |-> <<p.result>>]])
  /\ UNCHANGED <<spreadsheet, pc, exitCode, etl, stats, extractedData, validationErrors,
                 transformedCustomers, unique, duplicates, duplicateLog,
                 transformedData, loadResults, customersTable, report, result,
                 probe, cancelRequested, db>>

\* Custom > Process All Rows
ProcessAllRows ==
  /\ activeSpreadsheet # None /\ activeSpreadsheet[1].clock < MaxEvents
  /\ LET ss == [activeSpreadsheet[1] EXCEPT !.clock = @ + 1]
     IN  \E met \in MetByRow(ss) :
           LET p == processAllRows(ss, met)
           IN  activeSpreadsheet' =
                 Some([p.ss EXCEPT !.event = [trigger |-> "processAllRows", row |-> 0,
                                              column |-> 0, results |-> p.results]])
  /\ UNCHANGED <<spreadsheet, pc, exitCode, etl, stats, extractedData, validationErrors,
                 transformedCustomers, unique, duplicates, duplicateLog,
                 transformedData, loadResults, customersTable, report, result,
                 probe, cancelRequested, db>>

\* the hourly time-based trigger
ProcessAllRowsScheduled ==
  /\ activeSpreadsheet # None /\ activeSpreadsheet[1].clock < MaxEvents
  /\ LET ss == [activeSpreadsheet[1] EXCEPT !.clock = @ + 1]
     IN  \E met \in MetByRow(ss) :
           LET p == processAllRowsScheduled(ss, met)
           IN  activeSpreadsheet' =
                 Some([p.ss EXCEPT !.event = [trigger |-> "processAllRowsScheduled",
                                              row |-> 0, column |-> 0,
                                              results |-> p.results]])
  /\ UNCHANGED <<spreadsheet, pc, exitCode, etl, stats, extractedData, validationErrors,
                 transformedCustomers, unique, duplicates, duplicateLog,
                 transformedData, loadResults, customersTable, report, result,
                 probe, cancelRequested, db>>

\* the daily time-based trigger
DailyCleanup ==
  /\ activeSpreadsheet # None /\ activeSpreadsheet[1].clock < MaxEvents
  /\ activeSpreadsheet' =
       Some([dailyCleanup(activeSpreadsheet[1]) EXCEPT
               !.clock = @ + 1,
               !.event = [trigger |-> "dailyCleanup", row |-> 0, column |-> 0,
                          results |-> <<>>]])
  /\ UNCHANGED <<spreadsheet, pc, exitCode, etl, stats, extractedData, validationErrors,
                 transformedCustomers, unique, duplicates, duplicateLog,
                 transformedData, loadResults, customersTable, report, result,
                 probe, cancelRequested, db>>

\* the pipeline at rest, with the spreadsheet the Apps Script project is bound to
Bound(book, ss) ==
  /\ spreadsheet = book
  /\ pc = "Idle"
  /\ exitCode = "none"
  /\ etl = DefaultEtl
  /\ stats = InitialStats
  /\ extractedData = None
  /\ validationErrors = <<>>
  /\ transformedCustomers = <<>>
  /\ unique = <<>>
  /\ duplicates = <<>>
  /\ duplicateLog = None
  /\ transformedData = None
  /\ loadResults = None
  /\ customersTable = {}
  /\ report = None
  /\ result = None
  /\ probe = None
  /\ cancelRequested = FALSE
  /\ activeSpreadsheet = Some(ss)
  /\ db = None

\* a row every rule of both validators accepts, and the rows differing from it
\* or from BaseRow in one cell
SheetBaseRow == [BaseRow EXCEPT ![1] = <<"C","0","0","1">>]

SheetRows ==
  FieldRows
    \cup UNION {{[SheetBaseRow EXCEPT ![k] = x] : x \in RawValues[ColumnNormalizers[k]]} :
                  k \in 1..8}

\* the batch reads the values of the sheet the Apps Script project is bound to
InitSheet ==
  \E row \in SheetRows :
    Bound([customers |-> ApiValues(<<CustomerHeader, row>>),
           orders |-> ApiError, products |-> ApiError],
          Spreadsheet(<<CustomerHeader, row>>, FALSE))

NextSheet == Main \/ ExtractAll \/ Transform \/ ProcessAllRows

\* The batch transformer and the spreadsheet-side validator over the same
\* one-row customers sheets
SpecSheet == InitSheet /\ [][NextSheet]_vars

\* rows as the triggers meet them: never processed, or carrying the status an
\* earlier processRow wrote
ScriptRows ==
  {SheetBaseRow, BaseRow,
   [SheetBaseRow EXCEPT ![8] = Validated_],
   [SheetBaseRow EXCEPT ![8] = Registered_],
   [BaseRow EXCEPT ![8] = Invalid_]}

MaxSheetRows == 3

InitAppsScript ==
  \E data \in SeqsUpTo(ScriptRows, MaxSheetRows), apiConfigured \in BOOLEAN :
    Bound([customers |-> ApiError, orders |-> ApiError, products |-> ApiError],
          Spreadsheet(<<CustomerHeader>> \o data, apiConfigured))

NextAppsScript == OnEdit \/ ProcessAllRows \/ ProcessAllRowsScheduled \/ DailyCleanup

\* The triggers of the Apps Script project on small customers sheets
SpecAppsScript == InitAppsScript /\ [][NextAppsScript]_vars

\* the log entries written before the behaviour starts
MaxLogEntries == 1002

\* a Logs sheet holding its header row and n entries, oldest first
LogSheet(n) == <<LogHeader>> \o [i \in 1..n |-> [timestamp |-> i, level |-> "SUCCESS"]]

\* The time-based triggers on a spreadsheet without customer rows, with no
\* Logs sheet yet or one of up to MaxLogEntries entries
InitCleanup ==
  \/ Bound([customers |-> ApiError, orders |-> ApiError, products |-> ApiError],
           Spreadsheet(<<CustomerHeader>>, FALSE))
  \/ \E n \in 0..MaxLogEntries :
       Bound([customers |-> ApiError, orders |-> ApiError, products |-> ApiError],
             [Spreadsheet(<<CustomerHeader>>, FALSE) EXCEPT !.Logs = Some(LogSheet(n))])

NextCleanup == ProcessAllRowsScheduled \/ DailyCleanup

SpecCleanup == InitCleanup /\ [][NextCleanup]_vars

(***************************************************************************)
(* The caller of the pipeline                                              *)
(***************************************************************************)
\* The caller asks the run to stop. run() takes no argument and main()
\* installs no handler: nothing of the pipeline reads the request.
Cancel ==
  /\ ~cancelRequested
  /\ pc \in {"Extracting", "Transforming", "Loading", "Summary"} /\ exitCode = "none"
  /\ cancelRequested' = TRUE
  /\ UNCHANGED <<spreadsheet, pc, exitCode, etl, stats, extractedData, validationErrors,
                 transformedCustomers, unique, duplicates, duplicateLog,
                 transformedData, loadResults, customersTable, report, result,
                 probe, activeSpreadsheet, db>>

InitCancel ==
  \E book \in Workbooks(CustomerResponses({RowA, RowC}, MaxPipelineRows), OtherResponses) :
    Start(book)

NextCancel == Main \/ ExtractAll \/ Transform \/ Load \/ Summary \/ Cancel

\* The whole pipeline with a caller that may ask it to stop at any stage
SpecCancel == InitCancel /\ [][NextCancel]_vars

(***************************************************************************)
(* Properties                                                              *)
(***************************************************************************)
\* transform() has returned
Transformed == transformedData # None

\* the rows transformCustomers was given
sheetRows == extractedData[1].customers.data

valid == transformedData[1].customers.valid
invalid == transformedData[1].customers.invalid

\* validate() was called by the transform() that returned
Validated == Transformed /\ etl.validateBeforeLoad

\* deduplicateCustomers did deduplicate in the transform() that returned
Deduplicated == Transformed /\ etl.deduplicateData

rowIndexes(records) == [i \in 1..Len(records) |-> records[i]._rowIndex]

\* some validation error was recorded for the row
HasFatalError(rowIndex) ==
  \E k \in 1..Len(validationErrors) : validationErrors[k].row = rowIndex

\* the subsequence of s at the positions in idx
SubSeqAt(s, idx) ==
  LET sel[n \in 0..Len(s)] ==
        IF n = 0 THEN <<>>
        ELSE IF n \in idx THEN Append(sel[n-1], s[n]) ELSE sel[n-1]
  IN  sel[Len(s)]

StrictlyIncreasing(s) == \A i, j \in 1..Len(s) : i < j => s[i] < s[j]

\* the record without its _errors field
WithoutErrors(record) == [f \in DOMAIN record \ {"_errors"} |-> record[f]]

\* C1: transformCustomers returns exactly one record per input row, in input
\* order, and the record of the row at 0-based position i has _rowIndex i + 2
\* (rows of every length 0..8, rows without values included).
C1_OneRecordPerRow ==
  Transformed =>
    /\ Len(transformedCustomers) = Len(sheetRows)
    /\ \A n \in 1..Len(sheetRows) :
         /\ transformedCustomers[n]._rowIndex = (n - 1) + 2
         /\ transformedCustomers[n] = transformCustomerRow(sheetRows[n], (n - 1) + 2).customer

C1_Witness ==
  /\ Transformed
  /\ Len(sheetRows) >= 3
  /\ \E n \in 1..Len(sheetRows) : n < Len(sheetRows) /\ Len(sheetRows[n]) = 0
  /\ \E n \in 1..Len(sheetRows) : Len(sheetRows[n]) = 8
  /\ Len(transformedCustomers) = Len(sheetRows)

\* C2: validate puts a record in invalid if and only if a validation error was
\* recorded for its row in this transform() run, and in valid if and only if
\* none was.
C2_VerdictIffFatalError ==
  Validated =>
    \A n \in 1..Len(unique) :
      /\ (\E m \in 1..Len(invalid) : invalid[m]._rowIndex = unique[n]._rowIndex)
           <=> HasFatalError(unique[n]._rowIndex)
      /\ (\E m \in 1..Len(valid) : valid[m]._rowIndex = unique[n]._rowIndex)
           <=> ~HasFatalError(unique[n]._rowIndex)

C2_Witness ==
  /\ Validated
  /\ Len(valid) >= 1 /\ Len(invalid) >= 2
  /\ \E m \in 1..Len(invalid) : invalid[m]._rowIndex > 2

\* C3 as claimed: whatever the flags, no record with a recorded fatal error is
\* in the valid set handed to loadCustomers.
C3_NoFatalRecordInValid ==
  Transformed => \A n \in 1..Len(valid) : ~HasFatalError(valid[n]._rowIndex)

\* C3 amended: when validation is enabled (no --no-validate), no record with a
\* recorded fatal error is in the valid set handed to loadCustomers, with or
\* without --no-dedupe and --continue-on-error.
C3_NoFatalRecordInValidWhenValidating ==
  Validated => \A n \in 1..Len(valid) : ~HasFatalError(valid[n]._rowIndex)

C3_Witness ==
  /\ Validated /\ ~etl.deduplicateData /\ etl.continueOnError
  /\ loadResults # None
  /\ Len(valid) >= 1 /\ Len(invalid) >= 1
  /\ \E k \in 1..Len(validationErrors) : validationErrors[k].field = "customer_id"

\* the deduplication key of the n-th transformed record, as the code derives it
keyOf(n) == dedupKey(transformedCustomers[n])
Keyless(n) == keyOf(n) \in {Null, Undefined, <<>>}
\* the n-th transformed record is the first one of its key (or has no key)
FirstOfKey(n) == Keyless(n) \/ \A m \in 1..(n - 1) : keyOf(m) # keyOf(n)
\* the position of the first record with the key of the n-th
firstWithKey(n) == MinOf({m \in 1..n : keyOf(m) = keyOf(n)})

claimedKeyOf(n) ==
  IF transformedCustomers[n].customer_id # Null
  THEN transformedCustomers[n].customer_id
  ELSE transformedCustomers[n].email

\* C5 as claimed: records are duplicates exactly when their claimed keys are
\* equal: of two records with the same customer_id only the first is in
\* unique, and a record whose claimed key no earlier record has stays in it.
C5_IdentifierIsTheKey ==
  Deduplicated =>
    \A n \in 1..Len(transformedCustomers) :
      claimedKeyOf(n) # Null =>
        ((\E m \in 1..Len(unique) : unique[m]._rowIndex = transformedCustomers[n]._rowIndex)
           <=> (\A m \in 1..(n - 1) : claimedKeyOf(m) # claimedKeyOf(n)))

\* C6: a record with neither customer_id nor email is never discarded as a
\* duplicate: every such record is in unique, however many there are.
C6_KeylessRecordsPassThrough ==
  Transformed =>
    \A n \in 1..Len(transformedCustomers) :
      (transformedCustomers[n].customer_id = Null /\ transformedCustomers[n].email = Null)
        => \E m \in 1..Len(unique) : unique[m] = transformedCustomers[n]

C6_Witness ==
  /\ Deduplicated
  /\ Cardinality({m \in 1..Len(unique) :
        unique[m].customer_id = Null /\ unique[m].email = Null}) >= 2
  /\ \E m \in 1..Len(unique) : unique[m].email # Null
  /\ Len(duplicates) >= 0

\* C7 as claimed: for every record deduplicateCustomers discards, the emitted
\* duplicate log has an entry with the record's rowIndex, the key that
\* collided and the rowIndex of the surviving first record, which is in unique.
C7_EveryDiscardIsLogged ==
  Deduplicated =>
    \A n \in 1..Len(transformedCustomers) :
      (~\E m \in 1..Len(unique) : unique[m]._rowIndex = transformedCustomers[n]._rowIndex)
        => /\ duplicateLog # None
           /\ \E d \in 1..Len(duplicateLog[1]) :
                /\ duplicateLog[1][d].row = transformedCustomers[n]._rowIndex
                /\ duplicateLog[1][d].key = keyOf(n)
                /\ \E m \in 1..Len(unique) :
                     /\ unique[m]._rowIndex = duplicateLog[1][d].duplicateOf
                     /\ dedupKey(unique[m]) = keyOf(n)

\* C8: validate drops nothing: every record it is given is in exactly one of
\* valid and invalid, each of the two keeps the input order, and an invalid
\* record is the input record plus the non-empty list of its row's errors.
C8_ValidateDropsNothing ==
  Validated =>
    /\ Len(valid) + Len(invalid) = Len(unique)
    /\ \A n \in 1..Len(unique) :
         Cardinality({m \in 1..Len(valid) : valid[m] = unique[n]})
           + Cardinality({m \in 1..Len(invalid) : WithoutErrors(invalid[m]) = unique[n]}) = 1
    /\ StrictlyIncreasing(rowIndexes(valid))
    /\ StrictlyIncreasing(rowIndexes(invalid))
    /\ \A m \in 1..Len(invalid) :
         /\ Len(invalid[m]._errors) > 0
         /\ invalid[m]._errors =
              SelectSeq(validationErrors, LAMBDA e : e.row = invalid[m]._rowIndex)

C8_Witness ==
  /\ Validated
  /\ Len(valid) >= 1 /\ Len(invalid) >= 2
  /\ \E m \in 1..Len(invalid) : Len(invalid[m]._errors) >= 2

\* C9 as claimed: at the end of the load stage every extracted row is accounted
\* for: extracted = transformed = loaded + skipped + failed to load.
C9_EveryRowAccounted ==
  loadResults # None =>
    /\ stats.extracted = stats.transformed
    /\ stats.transformed = stats.loaded + stats.skipped + loadResults[1].customers.failed

\* the moves of ETLPipeline.run from stage to stage; "Summary" is the end of
\* the Loading stage, after load() has returned and before run() returns
StageMoves ==
  {<<"Idle", "Extracting">>, <<"Extracting", "Transforming">>,
   <<"Transforming", "Loading">>, <<"Loading", "Summary">>, <<"Summary", "Done">>}
    \cup {<<stage, "Failed">> :
            stage \in {"Idle", "Extracting", "Transforming", "Loading", "Summary"}}

\* C10: run moves Idle, Extracting, Transforming, Loading, Done in this order
\* and through each at most once; transform starts only when extractAll has
\* returned, load only when transform has returned, the success result comes
\* only after load has returned; the only other move is to Failed.
C10_StagesInOrder ==
  [][/\ pc' # pc => <<pc, pc'>> \in StageMoves
     /\ pc' = "Transforming" => extractedData' # None
     /\ pc' = "Loading" => transformedData' # None
     /\ result' # None => pc' = "Done" /\ loadResults' # None
     /\ pc' = "Done" => result' # None]_vars

C10_Witness ==
  /\ pc = "Done"
  /\ result # None /\ result[1].success
  /\ extractedData # None /\ transformedData # None /\ loadResults # None
  /\ stats.transformed >= 2

\* run() is past the extract stage
Extracted == pc \in {"Transforming", "Loading", "Summary", "Done"}
\* load() has returned normally
Loaded == pc \in {"Summary", "Done"}

\* C11 as claimed: a failure of extracting any of the three configured sheets,
\* or of persisting any record, is fatal: the run never gets past the stage of
\* the failure.
C11_AnyCollaboratorFailureIsFatal ==
  /\ Extracted => \A sheet \in {"customers", "orders", "products"} : spreadsheet[sheet].ok
  /\ Loaded => loadResults[1].customers.failed = 0

\* C11 amended: a failure of extracting the customers sheet, and (without
\* --continue-on-error) a failure of persisting a record, is fatal: the run
\* never gets past that stage; a Failed run has exit code 1, no result, and a
\* report of the statistics accumulated so far with at least one error.  A
\* failed orders or products extraction is only logged (an error and a
\* warning) and the run goes on.
C11_FatalCollaboratorFailures ==
  /\ Extracted => spreadsheet.customers.ok
  /\ Extracted =>
       \A sheet \in {"orders", "products"} :
         ~spreadsheet[sheet].ok => stats.errors >= 1 /\ stats.warnings >= 1
  /\ (Loaded /\ ~etl.continueOnError) => loadResults[1].customers.failed = 0
  /\ pc = "Failed" =>
       /\ exitCode = "1" /\ result = None /\ loadResults = None
       /\ report # None
       /\ report[1].statistics = stats
       /\ report[1].status = "COMPLETED_WITH_ERRORS"
       /\ stats.errors >= 1
       /\ extractedData = None => transformedData = None

\* a run that failed in the load stage, after one record was inserted
C11_Witness ==
  /\ pc = "Failed"
  /\ ~etl.continueOnError
  /\ transformedData # None
  /\ report # None
  /\ report[1].statistics.extracted >= 2
  /\ report[1].statistics.transformed >= 2
  /\ report[1].statistics.loaded >= 1

\* C12 as claimed: once loadCustomers is over (returned or thrown), either
\* every record of the batch is persisted or none is.
C12_AllOrNothing ==
  (pc \in {"Summary", "Done", "Failed"} /\ transformedData # None) =>
     customersTable = {} \/ customersTable = 1..Len(valid)

\* C13 as claimed: every record of the valid set satisfies the NOT NULL and
\* CHECK constraints of table customers (customer_id may still be null: it is
\* generated at load).
C13_ValidRecordsSatisfySchema ==
  Validated =>
    \A n \in 1..Len(valid) :
      /\ valid[n].full_name # Null
      /\ valid[n].email # Null
      /\ chk_email_format(valid[n].email)
      /\ chk_phone_format(valid[n].phone_number)
      /\ valid[n].registered_at # Null
      /\ chk_registered_date(valid[n].registered_at)
      /\ valid[n].status \in customer_status_enum
      /\ valid[n].customer_id = Null \/ chk_customer_id_format(valid[n].customer_id)

\* the normalizer under probe has been called once
Normalized(f) == probe # None /\ probe[1].normalizer = f /\ probe[1].first # None
\* what the first and the second call returned, and the raw value
firstOutcome == probe[1].first[1]
secondOutcome == probe[1].second[1]
rawValue == probe[1].input

\* the defect of a warn-and-default field the raw value has, if any: an empty
\* customer_id, an invalid phone, an unknown state, an empty, unparseable or
\* future date, an empty or unknown status
HasDefaultedDefect ==
  \/ Normalized("transformCustomerId") /\ isBlank(rawValue)
  \/ Normalized("transformPhone") /\ ~isBlank(rawValue) /\ firstOutcome.value = Null
  \/ Normalized("transformStateCode") /\ ~isBlank(rawValue) /\ firstOutcome.value = Null
  \/ Normalized("transformRegisteredAt")
       /\ \/ isBlank(rawValue)
          \/ ~(matchesIsoDate(rawValue) \/ matchesShortDate(rawValue, "/")
                 \/ matchesShortDate(rawValue, "-"))
          \/ ~chk_registered_date(firstOutcome.value)
  \/ Normalized("transformStatus")
       /\ (isBlank(rawValue) \/ lookup(statusMap, toLowerCase(trim(rawValue))) = Undefined)

\* C14 as claimed: a defect of a warn-and-default field adds no entry to the
\* fatal-error list and is recorded as a warning.
C14_DefaultedDefectsWarn ==
  HasDefaultedDefect => firstOutcome.errors = <<>> /\ firstOutcome.warnings >= 1

\* the normalizer under probe has been called on its own non-null result
Renormalized == probe # None /\ probe[1].second # None

\* C15 as claimed: every field normalizer is idempotent: called on a non-null
\* value it returned, it returns that value again and records no error.
C15_NormalizersIdempotent ==
  Renormalized =>
    /\ secondOutcome.value = firstOutcome.value
    /\ secondOutcome.errors = <<>>

\* C16 as claimed: transformPhone returns null or exactly 10 digits: non-digits
\* are stripped, a leading country code 1 is dropped when 11 digits result,
\* any other digit count yields null with a warning, never a fatal error.
C16_PhoneIsTenDigitsOrNull ==
  Normalized("transformPhone") =>
    /\ firstOutcome.errors = <<>>
    /\ \/ firstOutcome.value = Null
       \/ Len(firstOutcome.value) = 10 /\ AllDigits(firstOutcome.value)
    /\ (~isBlank(rawValue) /\ Len(digitsOf(rawValue)) = 10)
         => firstOutcome.value = digitsOf(rawValue)
    /\ (~isBlank(rawValue) /\ Len(digitsOf(rawValue)) = 11 /\ digitsOf(rawValue)[1] = "1")
         => firstOutcome.value = Tail(digitsOf(rawValue))
    /\ (~isBlank(rawValue) /\ firstOutcome.value = Null) => firstOutcome.warnings >= 1

\* C17 as claimed: transformEmail accepts a non-empty value, returning it
\* trimmed and lower-cased without error, if and only if that form matches
\* ^[^\s@]+@[^\s@]+\.[^\s@]+$; otherwise it records a fatal error on 'email'
\* and returns null.
C17_EmailAcceptedIffLoosePattern ==
  (Normalized("transformEmail") /\ ~isBlank(rawValue)) =>
    IF matchesLooseEmail(toLowerCase(trim(rawValue)))
    THEN firstOutcome.value = toLowerCase(trim(rawValue)) /\ firstOutcome.errors = <<>>
    ELSE /\ firstOutcome.value = Null
         /\ Len(firstOutcome.errors) = 1
         /\ firstOutcome.errors[1].field = "email"

\* the date a-b-YYYY denotes under the claimed tie-break: the first segment is
\* the day only when it is greater than 12, else the month
claimedDashDate(value) ==
  LET parts == split(value, "-")
      a == parseDigits(parts[1])
      b == parseDigits(parts[2])
  IN  IF a > 12
      THEN parts[3] \o <<"-">> \o zeroPad(b, 2) \o <<"-">> \o zeroPad(a, 2)
      ELSE parts[3] \o <<"-">> \o zeroPad(a, 2) \o <<"-">> \o zeroPad(b, 2)

\* C18 as claimed: for a dash-separated date a-b-YYYY the first segment is the
\* day only when it is greater than 12 and the month otherwise.
C18_DashDateTieBreak ==
  (Normalized("transformRegisteredAt") /\ ~isBlank(rawValue)
     /\ matchesShortDate(rawValue, "-"))
    => firstOutcome.value = claimedDashDate(rawValue)

\* /^\d{4}\/\d{1,2}\/\d{1,2}$/
matchesYearFirstDate(s) ==
  LET parts == split(s, "/")
  IN  /\ Len(parts) = 3
      /\ Len(parts[1]) = 4 /\ AllDigits(parts[1])
      /\ Len(parts[2]) \in {1, 2} /\ AllDigits(parts[2])
      /\ Len(parts[3]) \in {1, 2} /\ AllDigits(parts[3])

\* the segments name a day of the calendar
isCalendarDate(year, month, day) ==
  /\ parseDigits(month) \in 1..12
  /\ parseDigits(day) \in 1..daysInMonth(parseDigits(year), parseDigits(month))

\* the raw value has one of the shapes the claim lists
hasDateShape(s) ==
  \/ matchesIsoDate(s)
  \/ matchesShortDate(s, "/")
  \/ matchesShortDate(s, "-")
  \/ matchesYearFirstDate(s)

\* C19 as claimed: transformRegisteredAt and transformOrderDate never record a
\* fatal error and always return YYYY-MM-DD: an ISO input as-is, MM/DD/YYYY and
\* YYYY/MM/DD converted to the same calendar date, an empty input or one of no
\* date shape as today's date with a warning.
C19_DatesAlwaysNormalized ==
  (Normalized("transformRegisteredAt") \/ Normalized("transformOrderDate")) =>
    LET slash == split(rawValue, "/")
        dash == split(rawValue, "-")
    IN  /\ firstOutcome.errors = <<>>
        /\ matchesIsoDate(firstOutcome.value)
        /\ (~isBlank(rawValue) /\ matchesIsoDate(rawValue)
              /\ isCalendarDate(dash[1], dash[2], dash[3]))
             => firstOutcome.value = rawValue
        /\ (~isBlank(rawValue) /\ matchesShortDate(rawValue, "/")
              /\ isCalendarDate(slash[3], slash[1], slash[2]))
             => firstOutcome.value =
                  slash[3] \o <<"-">> \o padStart2(slash[1]) \o <<"-">> \o padStart2(slash[2])
        /\ (~isBlank(rawValue) /\ matchesYearFirstDate(rawValue)
              /\ isCalendarDate(slash[1], slash[2], slash[3]))
             => firstOutcome.value =
                  slash[1] \o <<"-">> \o padStart2(slash[2]) \o <<"-">> \o padStart2(slash[3])
        /\ (isBlank(rawValue) \/ ~hasDateShape(rawValue))
             => firstOutcome.value = toISODate(Today) /\ firstOutcome.warnings >= 1

\* the first run of processAllRows has validated the row transform() was given
BothValidated ==
  /\ Validated /\ Len(sheetRows) >= 1
  /\ activeSpreadsheet[1].clock = 1
  /\ Len(activeSpreadsheet[1].event.results) = 1
  /\ getStatus(activeSpreadsheet[1].Sheet1, 2) # Error_

\* C20 as claimed: the spreadsheet-side validator and the batch transformer
\* apply the same rules: validateRowData reports a customer row valid if and
\* only if transformCustomers followed by validate records no fatal error for
\* the same row.
C20_ValidatorsAgree ==
  BothValidated =>
    LET verdict == activeSpreadsheet[1].event.results[1]
    IN  verdict.row = 2 /\ (verdict.valid <=> ~HasFatalError(2))

\* C21 as claimed: a cancellation signal is honoured between stages: once the
\* caller has asked the run to stop, no further stage is performed, and the
\* run ends in a Cancelled terminal state that returns the statistics
\* accumulated so far.
C21_CancellationBetweenStages ==
  [][cancelRequested =>
       /\ pc' \in {pc, "Cancelled"}
       /\ stats' = stats
       /\ pc' = "Cancelled" => result' = Some([cancelled |-> TRUE, stats |-> stats])]_vars

\* the Apps Script side of the state
script == activeSpreadsheet[1]

\* the step is a run of processAllRows or processAllRowsScheduled
BulkRun ==
  /\ activeSpreadsheet' # activeSpreadsheet
  /\ script'.event.trigger \in {"processAllRows", "processAllRowsScheduled"}

\* the data rows whose Status cell is neither 'Validated' nor 'Registered'
pendingRows(sheet) ==
  {r \in 2..Len(sheet) : getStatus(sheet, r) \notin {Validated_, Registered_}}

ScriptStatuses == {Validated_, Registered_, Invalid_, RegistrationFailed_, Error_}

\* the step is an onEdit of a cell other than the Status cell, on a row whose
\* Status cell holds a value processRow wrote, and its processRow did not throw
EditOfProcessedRow ==
  /\ activeSpreadsheet' # activeSpreadsheet
  /\ script'.event.trigger = "onEdit"
  /\ script'.event.column # getColumnIndex(script.Sheet1, StatusColumn)
  /\ getStatus(script.Sheet1, script'.event.row) \in ScriptStatuses
  /\ getStatus(script'.Sheet1, script'.event.row) # Error_

\* the row's data, as edited, passes validateRowData with a Status the user
\* may enter
UserDataValid ==
  LET row == script'.event.row
      entered == setValue(script'.Sheet1, row, getColumnIndex(script.Sheet1, StatusColumn),
                          <<"A","c","t","i","v","e">>)
  IN  \A v \in validateRowData(getRowData(entered, row), row) : v.valid

\* C28 as claimed: the verdict of processRow depends only on the user-entered
\* data: the value processRow wrote into the Status column never makes a later
\* processRow of the row fail validation, so a registered row edited again is
\* registered again, and a row marked 'Invalid' whose offending field has been
\* corrected becomes valid.
C28_WrittenStatusDoesNotFailValidation ==
  [][(EditOfProcessedRow /\ UserDataValid) =>
       /\ script'.event.results[1].valid
       /\ getStatus(script'.Sheet1, script'.event.row)
            \in {Registered_, RegistrationFailed_}]_vars

\* the step is a run of dailyCleanup on a spreadsheet that has a Logs sheet
Cleanup ==
  /\ activeSpreadsheet' # activeSpreadsheet
  /\ script'.event.trigger = "dailyCleanup"
  /\ script.Logs # None

\* C30 as claimed: after dailyCleanup on a log sheet of a header row and n
\* entries the sheet holds the header and exactly min(n, 1000) entries, the
\* most recent ones.
C30_CleanupKeepsLastThousandEntries ==
  [][Cleanup =>
       LET entries == Tail(script.Logs[1])
           n == Len(entries)
           kept == IF n < KeptLogRows THEN n ELSE KeptLogRows
       IN  script'.Logs[1] = <<script.Logs[1][1]>> \o SubSeq(entries, n - kept + 1, n)]_vars

\* C24 as claimed: no two records of the valid set of one transform() run share
\* the same non-null customer_id or the same non-null email.
C24_ValidRecordsAreDistinctEntities ==
  Transformed =>
    \A i, j \in 1..Len(valid) :
      i < j =>
        /\ valid[i].customer_id # Null => valid[i].customer_id # valid[j].customer_id
        /\ valid[i].email # Null => valid[i].email # valid[j].email

\* the source rows (positions of transformedCustomers) with the key of the n-th
rowsOfKey(n) == {m \in 1..Len(transformedCustomers) : keyOf(m) = keyOf(n)}

\* valid holds a record with the key of the n-th transformed record
KeyInValid(n) == \E m \in 1..Len(valid) : dedupKey(valid[m]) = keyOf(n)

\* C25 as claimed: if at least one source row of a deduplication key has no
\* fatal error, the valid set has a record with that key.
C25_ValidRowOfKeyIsNotLost ==
  Transformed =>
    \A n \in 1..Len(transformedCustomers) :
      (~Keyless(n) /\ ~HasFatalError(transformedCustomers[n]._rowIndex))
        => KeyInValid(n)

\* C25 amended: if the first source row of a deduplication key has no fatal
\* error, the valid set has a record with that key, whatever the flags; a
\* later row of the key does not stand in for a first row with fatal errors.
C25_FirstRowOfKeyDecides ==
  Transformed =>
    \A n \in 1..Len(transformedCustomers) :
      (~Keyless(n) /\ FirstOfKey(n) /\ ~HasFatalError(transformedCustomers[n]._rowIndex))
        => \E m \in 1..Len(valid) : valid[m] = transformedCustomers[n]

\* rows 2 and 3 share a key; the first is clean and is the one in valid
C25_Witness ==
  /\ Validated /\ Deduplicated
  /\ Len(transformedCustomers) >= 2
  /\ ~Keyless(1) /\ keyOf(2) = keyOf(1)
  /\ ~HasFatalError(2) /\ HasFatalError(3)
  /\ \E m \in 1..Len(valid) : valid[m] = transformedCustomers[1]
  /\ Len(invalid) = 0

(***************************************************************************)
(* The loader against a database that already holds rows                   *)
(***************************************************************************)
\* no customer_id, an email of its own
RowI ==
  <<<<>>,
     <<"E","d">>,
     <<"e","@","b",".","c","c">>>>

LoadPool == {RowB, RowG, RowI}

\* a database where an earlier run committed customer C001 of Ohio
SeededDatabase ==
  [EmptyDatabase EXCEPT !.states = {<<"O","H">>},
                        !.customers = {[customer_id |-> <<"C","0","0","1">>, row |-> 0]}]

InitLoad ==
  \E book \in Workbooks(CustomerResponses(LoadPool, MaxPipelineRows), {ApiError}),
     database \in {EmptyDatabase, SeededDatabase} :
    StartOn(book, database)

SpecLoad == InitLoad /\ [][Next]_vars

\* C23: within one loadCustomers call, a record whose customer_id is missing is
\* inserted under a generated identifier that differs from the identifier of
\* every INSERT made earlier in the same batch, so no record of the batch
\* overwrites another through the customer_id upsert.
C23_GeneratedIdsDistinctWithinBatch ==
  \A j \in 1..Len(db.statements) :
    db.statements[j].generated =>
      \A i \in 1..(j - 1) : db.statements[i].customer_id # db.statements[j].customer_id

\* C26: at the end of every run, stats.loaded and the loaded count loadCustomers
\* returned equal the number of records committed to the database.
C26_LoadedCountsCommittedRecords ==
  pc \in {"Done", "Failed"} =>
    /\ stats.loaded = Cardinality(customersTable)
    /\ loadResults # None => loadResults[1].customers.loaded = Cardinality(customersTable)

\* C27: a loadCustomers call that fails and rolls back its transaction leaves
\* every table as it was before the call, the states table included.
C27_RollbackLeavesDatabaseUnchanged ==
  [][(pc = "Loading" /\ pc' = "Failed" /\ db'.transaction = "rolled back")
       => (db'.states = db.states /\ db'.customers = db.customers)]_vars

(***************************************************************************)
(* The order procedures of sql/06_procedures.sql                           *)
(***************************************************************************)
ProductIds == {1, 2}
OrderIds == {<<"O","R","D","1">>, <<"O","R","D","2">>}
\* the p_customer_id values a session passes: one customer that exists, one that does not
CustomerIds == {<<"C","0","0","1">>, <<"C","0","0","2">>}
Quantities == {1, 2}

\* stock_quantity of every product before the first call
InitialStock == 2
\* CALL statements one session makes
MaxCalls == 5

\* products, orders and order_items of schema.sql: orders is a function on the
\* order_id values that exist, order_items a function on the (order_id,
\* product_id) pairs that exist (uq_order_product). calls counts the CALLs made.
OrderDatabase ==
  [customers |-> {<<"C","0","0","1">>},
   products |-> [p \in ProductIds |-> [unit_price |-> p, stock_quantity |-> InitialStock]],
   orders |-> << >>,
   order_items |-> << >>,
   calls |-> 0]

\* what a CALL leaves: the database, untouched when the procedure raised
Raised(database) == [raised |-> TRUE, db |-> database]
Returned(database) == [raised |-> FALSE, db |-> database]

itemsOf(database, order_id) == {k \in DOMAIN database.order_items : k[1] = order_id}

RECURSIVE sumLineTotal(_, _)
sumLineTotal(database, keys) ==
  IF keys = {} THEN 0
  ELSE LET k == CHOOSE x \in keys : TRUE
       IN  database.order_items[k].quantity * database.order_items[k].unit_price
             + sumLineTotal(database, keys \ {k})

\* update_order_total(p_order_id)
update_order_total(database, p_order_id) ==
  [database EXCEPT !.orders[p_order_id].total_amount =
                      sumLineTotal(database, itemsOf(database, p_order_id))]

\* CALL create_order(p_customer_id, p_order_id)
create_order(database, p_customer_id, p_order_id) ==
  IF p_customer_id \notin database.customers THEN Raised(database)
  ELSE IF p_order_id \in DOMAIN database.orders THEN Raised(database)
  ELSE Returned([database EXCEPT !.orders =
         (p_order_id :> [customer_id |-> p_customer_id, order_status |-> "Pending",
                         total_amount |-> 0]) @@ @])

\* CALL add_order_item(p_order_id, p_product_id, p_quantity)
add_order_item(database, p_order_id, p_product_id, p_quantity) ==
  IF p_order_id \notin DOMAIN database.orders THEN Raised(database)
  ELSE IF p_product_id \notin DOMAIN database.products THEN Raised(database)
  ELSE IF database.products[p_product_id].stock_quantity < p_quantity THEN Raised(database)
  ELSE IF <<p_order_id, p_product_id>> \in DOMAIN database.order_items THEN Raised(database)
  ELSE Returned(update_order_total(
         [database EXCEPT !.order_items =
            (<<p_order_id, p_product_id>> :>
               [quantity |-> p_quantity,
                unit_price |-> database.products[p_product_id].unit_price]) @@ @],
         p_order_id))

\* UPDATE products SET stock_quantity = stock_quantity + sign * oi.quantity
\* FROM order_items oi WHERE oi.product_id = p.product_id AND oi.order_id = p_order_id
moveStock(database, p_order_id, sign) ==
  [p \in DOMAIN database.products |->
     IF <<p_order_id, p>> \in DOMAIN database.order_items
     THEN [database.products[p] EXCEPT !.stock_quantity =
             @ + sign * database.order_items[<<p_order_id, p>>].quantity]
     ELSE database.products[p]]

\* CALL cancel_order(p_order_id)
cancel_order(database, p_order_id) ==
  IF p_order_id \notin DOMAIN database.orders THEN Raised(database)
  ELSE Returned([database EXCEPT !.products = moveStock(database, p_order_id, 1),
                                 !.orders[p_order_id].order_status = "Cancelled"])

\* CALL complete_order(p_order_id): chk_stock_quantity_non_negative makes the
\* UPDATE fail when a product would go below zero.
complete_order(database, p_order_id) ==
  LET products == moveStock(database, p_order_id, -1)
  IN  IF p_order_id \notin DOMAIN database.orders THEN Raised(database)
      ELSE IF \E p \in DOMAIN products : products[p].stock_quantity < 0
      THEN Raised(database)
      ELSE Returned([database EXCEPT !.products = products,
                                     !.orders[p_order_id].order_status = "Delivered"])

\* what the session's variables other than the database keep during a CALL
pipelineVars ==
  <<spreadsheet, pc, exitCode, etl, stats, extractedData, validationErrors,
    transformedCustomers, unique, duplicates, duplicateLog, transformedData,
    loadResults, customersTable, report, result, probe, cancelRequested,
    activeSpreadsheet>>

\* the database after one more CALL: a procedure that raised changed nothing
afterCall(outcome) == [outcome.db EXCEPT !.calls = @ + 1]

CreateOrder ==
  /\ db.calls < MaxCalls
  /\ \E c \in CustomerIds, o \in OrderIds : db' = afterCall(create_order(db, c, o))
  /\ UNCHANGED pipelineVars

AddOrderItem ==
  /\ db.calls < MaxCalls
  /\ \E o \in OrderIds, p \in ProductIds, q \in Quantities :
       db' = afterCall(add_order_item(db, o, p, q))
  /\ UNCHANGED pipelineVars

CancelOrder ==
  /\ db.calls < MaxCalls
  /\ \E o \in OrderIds : db' = afterCall(cancel_order(db, o))
  /\ UNCHANGED pipelineVars

CompleteOrder ==
  /\ db.calls < MaxCalls
  /\ \E o \in OrderIds : db' = afterCall(complete_order(db, o))
  /\ UNCHANGED pipelineVars

InitOrders ==
  StartOn([customers |-> ApiError, orders |-> ApiError, products |-> ApiError],
          OrderDatabase)

NextOrders == CreateOrder \/ AddOrderItem \/ CancelOrder \/ CompleteOrder

SpecOrders == InitOrders /\ [][NextOrders]_vars

RECURSIVE sumQuantity(_, _)
sumQuantity(database, keys) ==
  IF keys = {} THEN 0
  ELSE LET k == CHOOSE x \in keys : TRUE
       IN  database.order_items[k].quantity + sumQuantity(database, keys \ {k})

\* the items of product p in the orders that are completed and not cancelled since
deliveredItems(p) ==
  {k \in DOMAIN db.order_items : k[2] = p /\ db.orders[k[1]].order_status = "Delivered"}

\* C29: after any sequence of create_order, add_order_item, complete_order and
\* cancel_order calls, each product's stock_quantity is its initial stock minus
\* the total quantity of its items in the orders that were completed and not
\* cancelled afterwards.
C29_StockMatchesCompletedOrders ==
  \A p \in ProductIds :
    db.products[p].stock_quantity = InitialStock - sumQuantity(db, deliveredItems(p))

=============================================================================
